---- MODULE Spec2Model ----
(***************************************************************************)
(* A model of bigblob-decoder: the bigblob archive codec (src/lib.rs,      *)
(* src/encoding.rs), the BC7 block codec (src/bc7/decode.rs,               *)
(* src/bc7/encode.rs) with its bit stream, the DDS header codec            *)
(* (src/dds.rs) and the commands of the tool that replace entries          *)
(* (src/main.rs).                                                          *)
(*                                                                         *)
(* Conventions.  A byte string is a sequence of naturals below 256.  In    *)
(* the archive codec a u32 is a natural; the archives of the model keep    *)
(* every u32 below 2^24, far from the wrap-around of the type.  In the DDS *)
(* functions a u32 is its four little-endian bytes, so that every value of *)
(* the type and its overflow are at hand.  A u128 or u64 is a sequence of  *)
(* bits, least-significant bit first, of the length of the type.           *)
(***************************************************************************)
EXTENDS Integers, Sequences, FiniteSets, TLC

VARIABLES
    file,      \* the bytes of the input archive
    pc,        \* where the archive tool is: open, toc, loaded, written,
               \* io_error, panic; idle when only the block codec runs
    toc,       \* the result of read_toc
    archive,   \* the result of Archive::from_file_and_toc, then mutated
    touched,   \* history: the indices of the entries mutated since loading
    nmut,      \* history: the number of mutations applied
    out,       \* the bytes write_to_file wrote
    bpc,       \* where the block codec is: pixels, value, encoded, fields,
               \* decoded;
               \* idle when only the archive tool runs
    bmode,     \* the BlockN type in use (0..7)
    pixels_in, \* the 16 texels given to encode_bc7_block
    bval,      \* the BlockN value given to encode
    blk,       \* the u128 block
    fields,    \* the result of BlockN::decode
    tile,      \* the result of decode_bc7_block
    build,     \* whether arithmetic and shifts check for overflow: debug
               \* (they panic), release (they wrap); none when no function
               \* that depends on it runs
    dpc,       \* where the DDS functions are: args, header, written, parsed,
               \* counted, aligned, panic (the call overflowed in a build
               \* that checks); idle when none runs
    dwidth,    \* the width given to the function
    dheight,   \* the height given to the function
    dpayload,  \* the bytes written behind the header
    dheader,   \* the result of create_dds_header
    ddata,     \* the bytes given to parse_dds
    dres,      \* the result of parse_dds, calculate_mipmap_count, align_up
    spc,       \* where the bit stream is: put, take, done, panic (a shift
               \* overflowed in a build that checks); idle when it is not
               \* in use
    sprog,     \* the fields still to inject
    sdone,     \* history: the fields injected, in the order of injection
    sdest,     \* the state the bits are injected into and extracted from
    swidths,   \* the BITS of the take_bits calls still to make
    staken,    \* the values take_bits returned, in the order of the calls
    tpc,       \* where the image encoder is: tiles (the tile tasks of a
               \* level run), done; idle when it does not run
    tmode,     \* the function called: level (encode_image_par), bc7
               \* (encode_bc7)
    timage,    \* the image given to the function
    tsize,     \* width and height of encode_bc7_with_encoder
    tlevel,    \* the image encode_image_par works on
    tblocks,   \* the bytes of the tile tasks that finished, by tile index
    tfinished, \* history: the tile indices in the order the tasks finished
    tres,      \* the bytes returned so far
    tlevels,   \* history: the levels encoded, each with its image, its
               \* bytes and the order its tasks finished in
    rpc,       \* where replace_one_entry is: call, done, panic; idle when
               \* it does not run
    rentry,    \* the entry given to replace_one_entry
    rbefore,   \* history: the entry as it was given
    rfile,     \* the replacement file: its path, its bytes, the compressor
    cpc,       \* where the command is: start, open, toc, loaded, work,
               \* created, written, panic; idle when no command runs
    ccmd,      \* the command: replace-entry, replace-entries,
               \* test-set-metadata
    chandle,   \* the handle of the input archive: none, open, closed
    cfile,     \* history: the bytes of the input archive when the command
               \* started
    cdisk,     \* the bytes of the files at the paths "in" (the input
               \* archive) and "out" (another path)
    coutput,   \* the path of the output: "in" or "out"
    ctoc,      \* the result of read_toc
    carchive,  \* the archive in memory
    cops,      \* what the command is to do: the entry name and file of
               \* replace-entry, the files of the folder of replace-entries
               \* in the order of the walk, the instructions of
               \* test-set-metadata
    cdone,     \* the number of elements of cops gone through
    ctasks,    \* replace-entries: the tasks scheduled that have not run
    ipc,       \* where interpolate is: call, done, panic (the u16 arithmetic
               \* overflowed in a build that checks); idle when it is not called
    iargs,     \* the BITS, a, b and index given to interpolate
    iret,      \* the u8 interpolate returned
    mpc,       \* where decode_bc7 is: call, done, panic; idle when it is not
               \* called
    mdata,     \* the bytes given to decode_bc7
    msize,     \* the width and height given to decode_bc7
    mimage     \* what decode_bc7 did: its status (ok, panic) and the image
               \* it returned

avars == <<file, pc, toc, archive, touched, nmut, out>>
bvars == <<bpc, bmode, pixels_in, bval, blk, fields, tile>>
dvars == <<build, dpc, dwidth, dheight, dpayload, dheader, ddata, dres>>
svars == <<spc, sprog, sdone, sdest, swidths, staken>>
tvars == <<tpc, tmode, timage, tsize, tlevel, tblocks, tfinished, tres,
           tlevels>>
rvars == <<rpc, rentry, rbefore, rfile>>
cvars == <<cpc, ccmd, chandle, cfile, cdisk, coutput, ctoc, carchive, cops,
           cdone, ctasks>>
ivars == <<ipc, iargs, iret>>
mvars == <<mpc, mdata, msize, mimage>>
vars == <<avars, bvars, dvars, svars, tvars, rvars, cvars, ivars, mvars>>

\* what a step of the archive tool, of the block codec, of the DDS
\* functions, of the bit stream leaves alone
notArchive == <<bvars, dvars, svars, tvars, rvars, cvars, ivars, mvars>>
notBlock == <<avars, dvars, svars, tvars, rvars, cvars, ivars, mvars>>
notDds == <<avars, bvars, svars, tvars, rvars, cvars, ivars, mvars>>
notBits == <<avars, bvars, dvars, tvars, rvars, cvars, ivars, mvars>>
notTiles == <<avars, bvars, dvars, svars, rvars, cvars, ivars, mvars>>
notReplace == <<avars, bvars, dvars, svars, tvars, cvars, ivars, mvars>>
notCommand == <<avars, bvars, dvars, svars, tvars, rvars, ivars, mvars>>
notInterpolate == <<avars, bvars, dvars, svars, tvars, rvars, cvars, mvars>>
notImage == <<avars, bvars, dvars, svars, tvars, rvars, cvars, ivars>>

----------------------------------------------------------------------------
(* Byte strings and little-endian words *)

Min(a, b) == IF a <= b THEN a ELSE b
Max(a, b) == IF a >= b THEN a ELSE b

RECURSIVE Concat(_)
Concat(ss) == IF ss = <<>> THEN <<>> ELSE Head(ss) \o Concat(Tail(ss))

RECURSIVE SumLen(_)
SumLen(ss) == IF ss = <<>> THEN 0 ELSE Len(Head(ss)) + SumLen(Tail(ss))

\* write_u32::<LE>
write_u32(v) ==
    <<v % 256, (v \div 256) % 256, (v \div 65536) % 256, (v \div 16777216) % 256>>

\* read_u32::<LE> at byte offset pos (0-based); the caller checks the length
read_u32(b, pos) ==
    b[pos + 1] + 256 * b[pos + 2] + 65536 * b[pos + 3] + 16777216 * b[pos + 4]

\* the bytes b[from .. from+n-1] (0-based from), cut at the end of b
Slice(b, from, n) ==
    IF from >= Len(b) THEN <<>> ELSE SubSeq(b, from + 1, Min(from + n, Len(b)))

----------------------------------------------------------------------------
(* lib.rs: the TOC parser *)

FileTypeOfTag(t) == IF t = 0 THEN "Image" ELSE IF t = 1 THEN "Sound" ELSE "Unknown"

\* the bytes 0x80..=0xBF that continue a UTF-8 sequence
utf8_continuation(x) == 128 <= x /\ x <= 191

\* the length of the UTF-8 sequence that starts at b[i], 0 when no well-formed
\* sequence starts there: no overlong form, no surrogate, nothing above
\* U+10FFFF
utf8_char_width(b, i) ==
    LET first == b[i]
        cont(k) == i + k <= Len(b) /\ utf8_continuation(b[i + k])
        second(lo, hi) == i + 1 <= Len(b) /\ lo <= b[i + 1] /\ b[i + 1] <= hi
    IN  IF first < 128 THEN 1
        ELSE IF 194 <= first /\ first <= 223
        THEN IF cont(1) THEN 2 ELSE 0
        ELSE IF first = 224
        THEN IF second(160, 191) /\ cont(2) THEN 3 ELSE 0
        ELSE IF first = 237
        THEN IF second(128, 159) /\ cont(2) THEN 3 ELSE 0
        ELSE IF 225 <= first /\ first <= 239
        THEN IF cont(1) /\ cont(2) THEN 3 ELSE 0
        ELSE IF first = 240
        THEN IF second(144, 191) /\ cont(2) /\ cont(3) THEN 4 ELSE 0
        ELSE IF 241 <= first /\ first <= 243
        THEN IF cont(1) /\ cont(2) /\ cont(3) THEN 4 ELSE 0
        ELSE IF first = 244
        THEN IF second(128, 143) /\ cont(2) /\ cont(3) THEN 4 ELSE 0
        ELSE 0

RECURSIVE run_utf8_validation(_, _)
run_utf8_validation(b, i) ==
    IF i > Len(b) THEN TRUE
    ELSE LET w == utf8_char_width(b, i) IN
         IF w = 0 THEN FALSE ELSE run_utf8_validation(b, i + w)

\* String::from_utf8(vec): Ok(the String of these bytes) for well-formed
\* UTF-8, an Err otherwise
from_utf8(vec) ==
    IF run_utf8_validation(vec, 1) THEN [ok |-> TRUE, string |-> vec]
    ELSE [ok |-> FALSE]

\* the results of the parser: Ok, the Err(io) of a short read, and the panic
\* of String::from_utf8(name_buf).unwrap()
IoError == [ok |-> FALSE, panic |-> FALSE, entries |-> <<>>]
Utf8Panic == [ok |-> FALSE, panic |-> TRUE, entries |-> <<>>]

\* read_entry at byte offset pos: 13 words, then the name.  The six unks
\* words are kept as u32 in full: each is the sequence of its four
\* little-endian bytes, so that every value up to 2^32 - 1 is in the model
read_entry(b, pos) ==
    IF pos + 52 > Len(b) THEN [ok |-> FALSE, panic |-> FALSE]
    ELSE LET name_len == read_u32(b, pos + 48)
             name == from_utf8(Slice(b, pos + 52, name_len))
         IN
         IF pos + 52 + name_len > Len(b) THEN [ok |-> FALSE, panic |-> FALSE]
         ELSE IF ~name.ok THEN [ok |-> FALSE, panic |-> TRUE]
         ELSE [ok |-> TRUE,
               panic |-> FALSE,
               next |-> pos + 52 + name_len,
               entry |-> [name |-> name.string,
                          file_type |-> FileTypeOfTag(read_u32(b, pos)),
                          size_decompressed |-> read_u32(b, pos + 4),
                          size |-> read_u32(b, pos + 8),
                          unks |-> << <<Slice(b, pos + 12, 4), Slice(b, pos + 16, 4)>>,
                                      <<Slice(b, pos + 20, 4), Slice(b, pos + 24, 4)>>,
                                      <<Slice(b, pos + 28, 4), Slice(b, pos + 32, 4)>> >>,
                          width |-> read_u32(b, pos + 36),
                          height |-> read_u32(b, pos + 40),
                          offset |-> read_u32(b, pos + 44)]]

RECURSIVE read_entries(_, _, _, _)
read_entries(b, pos, n, acc) ==
    IF n = 0 THEN [ok |-> TRUE, panic |-> FALSE, entries |-> acc]
    ELSE LET r == read_entry(b, pos) IN
         IF r.panic THEN Utf8Panic
         ELSE IF ~r.ok THEN IoError
         ELSE read_entries(b, r.next, n - 1, Append(acc, r.entry))

\* read_toc: ok = FALSE is the Err(io) result, or with panic = TRUE the panic
\* of read_entry
read_toc(b) ==
    IF Len(b) < 4 THEN IoError
    ELSE LET toc_index == read_u32(b, 0) IN
         IF toc_index + 4 > Len(b) THEN IoError
         ELSE read_entries(b, toc_index + 4, read_u32(b, toc_index), <<>>)

----------------------------------------------------------------------------
(* encoding.rs: the in-memory archive *)

Image(w, h, u) == [tag |-> "Image", width |-> w, height |-> h, unks |-> u]
Sound == [tag |-> "Sound"]
Compressed(d, n) == [tag |-> "Compressed", data |-> d, uncompressed_size |-> n]
Raw(d) == [tag |-> "Raw", data |-> d]

\* one iteration of the loop of from_file_and_toc, for a TOC entry that is
\* not Unknown
load_entry(b, e) ==
    [name |-> e.name,
     file_type |-> IF e.file_type = "Image"
                   THEN Image(e.width, e.height, e.unks) ELSE Sound,
     data |-> Compressed(Slice(b, e.offset, e.size), e.size_decompressed)]

RECURSIVE load_entries(_, _, _)
load_entries(b, es, acc) ==
    IF es = <<>> THEN [status |-> "ok", entries |-> acc]
    ELSE IF Head(es).file_type = "Unknown"
         THEN [status |-> "panic", entries |-> <<>>]      \* unimplemented!()
         ELSE load_entries(b, Tail(es), Append(acc, load_entry(b, Head(es))))

\* Archive::from_file_and_toc
from_file_and_toc(b, t) == load_entries(b, t.entries, <<>>)

\* lz4_flex::compress, the raw LZ4 block format, for inputs shorter than 13
\* bytes: no match can be emitted, the block is one run of literals behind its
\* token (the literal length in the high nibble)
lz4_compress(d) == <<16 * Len(d)>> \o d

\* compress_entry with the length taken after compression instead of before
compress_entry_len_after(e) ==
    [name |-> e.name,
     file_type |-> e.file_type,
     data |-> IF e.data.tag = "Compressed" THEN e.data.data
              ELSE lz4_compress(e.data.data),
     uncompressed_size |-> IF e.data.tag = "Compressed"
                           THEN e.data.uncompressed_size
                           ELSE Len(lz4_compress(e.data.data))]

\* the first map of write_to_file: Entry -> CompressedEntry
compress_entry(e) ==
    [name |-> e.name,
     file_type |-> e.file_type,
     data |-> IF e.data.tag = "Compressed" THEN e.data.data
              ELSE lz4_compress(e.data.data),
     uncompressed_size |-> IF e.data.tag = "Compressed"
                           THEN e.data.uncompressed_size
                           ELSE Len(e.data.data)]

\* written_entries with the offset recorded after it was advanced
RECURSIVE written_entries_late_offset(_, _, _)
written_entries_late_offset(ces, running_offset, acc) ==
    IF ces = <<>> THEN acc
    ELSE LET e == Head(ces) IN
         written_entries_late_offset(
             Tail(ces), running_offset + Len(e.data),
             Append(acc, [name |-> e.name,
                          file_type |-> e.file_type,
                          uncompressed_size |-> e.uncompressed_size,
                          size |-> Len(e.data),
                          offset |-> running_offset + Len(e.data)]))

\* the second map of write_to_file: CompressedEntry -> WrittenEntry, with the
\* running offset
RECURSIVE written_entries(_, _, _)
written_entries(ces, running_offset, acc) ==
    IF ces = <<>> THEN acc
    ELSE LET e == Head(ces) IN
         written_entries(Tail(ces), running_offset + Len(e.data),
                         Append(acc, [name |-> e.name,
                                      file_type |-> e.file_type,
                                      uncompressed_size |-> e.uncompressed_size,
                                      size |-> Len(e.data),
                                      offset |-> running_offset]))

\* toc_entry_bytes with width and height written in the other order
toc_entry_bytes_swapped(w) ==
    LET img == w.file_type.tag = "Image"
        zero == write_u32(0)
        unks == IF img THEN w.file_type.unks
                ELSE << <<zero, zero>>, <<zero, zero>>, <<zero, zero>> >>
    IN  write_u32(IF img THEN 0 ELSE 1)
        \o write_u32(w.uncompressed_size)
        \o write_u32(w.size)
        \o unks[1][1] \o unks[1][2]
        \o unks[2][1] \o unks[2][2]
        \o unks[3][1] \o unks[3][2]
        \o write_u32(IF img THEN w.file_type.height ELSE 0)
        \o write_u32(IF img THEN w.file_type.width ELSE 0)
        \o write_u32(w.offset)
        \o write_u32(Len(w.name))
        \o w.name

\* one TOC record as write_to_file writes it
toc_entry_bytes(w) ==
    LET img == w.file_type.tag = "Image"
        zero == write_u32(0)
        unks == IF img THEN w.file_type.unks
                ELSE << <<zero, zero>>, <<zero, zero>>, <<zero, zero>> >>
    IN  write_u32(IF img THEN 0 ELSE 1)
        \o write_u32(w.uncompressed_size)
        \o write_u32(w.size)
        \o unks[1][1] \o unks[1][2]
        \o unks[2][1] \o unks[2][2]
        \o unks[3][1] \o unks[3][2]
        \o write_u32(IF img THEN w.file_type.width ELSE 0)
        \o write_u32(IF img THEN w.file_type.height ELSE 0)
        \o write_u32(w.offset)
        \o write_u32(Len(w.name))
        \o w.name

\* Archive::write_to_file: the bytes written
write_to_file(entries) ==
    LET compressed_entries == [i \in 1..Len(entries) |-> compress_entry(entries[i])]
        data_size == SumLen([i \in 1..Len(entries) |-> compressed_entries[i].data])
        start_of_toc == data_size + 4
        ws == written_entries(compressed_entries, 4, <<>>)
    IN  write_u32(start_of_toc)
        \o Concat([i \in 1..Len(entries) |-> compressed_entries[i].data])
        \o write_u32(Len(ws))
        \o Concat([i \in 1..Len(ws) |-> toc_entry_bytes(ws[i])])

----------------------------------------------------------------------------
(* Bit strings: a u128 or u64 is a sequence of bits, least-significant first. *)
(* A bit string built by a function constructor ends in \o <<>>, which makes  *)
(* TLC hold it as a tuple instead of re-evaluating the constructor.           *)

Zeros(n) == [i \in 1..n |-> 0] \o <<>>
Ones(n) == [i \in 1..n |-> 1] \o <<>>

RECURSIVE Pow2(_)
Pow2(n) == IF n = 0 THEN 1 ELSE 2 * Pow2(n - 1)

\* the n low bits of the natural v
BitsOf(v, n) == [i \in 1..n |-> (v \div Pow2(i - 1)) % 2] \o <<>>

\* the natural a bit string of at most 30 bits stands for
RECURSIVE NatOf(_)
NatOf(bits) == IF bits = <<>> THEN 0 ELSE Head(bits) + 2 * NatOf(Tail(bits))

\* a bit string zero-extended or cut to n bits (the From and `as` conversions)
Resize(bits, n) ==
    [i \in 1..n |-> IF i <= Len(bits) THEN bits[i] ELSE 0] \o <<>>

BitOr(a, b) ==
    [i \in 1..Len(a) |-> IF a[i] = 1 \/ b[i] = 1 THEN 1 ELSE 0] \o <<>>
\* value << n and value >> n on a fixed-width integer
Shl(value, n) == SubSeq(Zeros(n) \o value, 1, Len(value))
Shr(value, n) == SubSeq(value \o Zeros(n), n + 1, n + Len(value))

\* value & ((T::from(1) << BITS) - T::from(1)), for BITS below the width of
\* T: the BITS low bits of value, as a bit string of BITS bits
LowBits(value, BITS) == SubSeq(value, 1, BITS)

\* u128::trailing_zeros: the number of zero bits below the lowest set bit,
\* the width of the type when no bit is set
trailing_zeros(value) ==
    IF \A i \in 1..Len(value) : value[i] = 0 THEN Len(value)
    ELSE (CHOOSE i \in 1..Len(value) :
              value[i] = 1 /\ \A j \in 1..(i - 1) : value[j] = 0) - 1

\* u8 arithmetic
shl8(x, n) == (x * Pow2(n)) % 256
shr8(x, n) == x \div Pow2(n)
or8(x, y) == NatOf(BitOr(BitsOf(x, 8), BitsOf(y, 8)))

----------------------------------------------------------------------------
(* bc7/decode.rs: take_bits and the BlockN readers *)

\* 1 << BITS, *dest <<= BITS and *value >>= BITS on a T of T_BITS bits
\* overflow when BITS is not below T_BITS: a build that checks panics, a
\* build that does not shifts by BITS % T_BITS
shift_overflows(T_BITS, BITS) == BITS >= T_BITS

\* assert!(0 < BITS) and assert!(BITS <= (8 * size_of::<T>())), with a return
\* type R as wide as T
width_asserted(T_BITS, BITS) == 0 < BITS /\ BITS <= T_BITS

\* take_bits::<T, R, BITS>(&mut value), 0 < BITS <= width of T: ret is the
\* value returned, as the BITS bits it is made of; rest is *value afterwards.
\* At BITS = width of T the shifts wrap to shifts by 0: mask is (1 << 0) - 1,
\* ret is 0 and *value stays.
take_bits(value, BITS) ==
    IF shift_overflows(Len(value), BITS)
    THEN [ret |-> Zeros(BITS), rest |-> value]
    ELSE [ret |-> LowBits(value, BITS), rest |-> Shr(value, BITS)]

\* from_fn(|_| take_bits::<_, u8, BITS>(&mut block)) for an array of n
RECURSIVE take_array(_, _, _, _)
take_array(value, BITS, n, acc) ==
    IF n = 0 THEN [ret |-> acc, rest |-> value]
    ELSE LET t == take_bits(value, BITS) IN
         take_array(t.rest, BITS, n - 1, Append(acc, NatOf(t.ret)))

\* Rotation::from_u2
from_u2(v) ==
    CASE v = 0 -> "No" [] v = 1 -> "R" [] v = 2 -> "G" [] v = 3 -> "B"

\* Rotation::to_u2
to_u2(rot) ==
    CASE rot = "No" -> 0 [] rot = "R" -> 1 [] rot = "G" -> 2 [] rot = "B" -> 3

\* take_bits::<_, u64, BITS>: the field as a u64
U64(bits) == Resize(bits, 64)

Block0_decode(b) ==
    LET t0 == take_bits(b, 1)
        t1 == take_bits(t0.rest, 4)
        t2 == take_array(t1.rest, 4, 6, <<>>)
        t3 == take_array(t2.rest, 4, 6, <<>>)
        t4 == take_array(t3.rest, 4, 6, <<>>)
        t5 == take_array(t4.rest, 1, 6, <<>>)
        t6 == take_bits(t5.rest, 45)
    IN  [partition |-> NatOf(t1.ret), r |-> t2.ret, g |-> t3.ret, b |-> t4.ret,
         p |-> t5.ret, index_data |-> U64(t6.ret)]

Block1_decode(b) ==
    LET t0 == take_bits(b, 2)
        t1 == take_bits(t0.rest, 6)
        t2 == take_array(t1.rest, 6, 4, <<>>)
        t3 == take_array(t2.rest, 6, 4, <<>>)
        t4 == take_array(t3.rest, 6, 4, <<>>)
        t5 == take_array(t4.rest, 1, 2, <<>>)
        t6 == take_bits(t5.rest, 46)
    IN  [partition |-> NatOf(t1.ret), r |-> t2.ret, g |-> t3.ret, b |-> t4.ret,
         p |-> t5.ret, index_data |-> U64(t6.ret)]

Block2_decode(b) ==
    LET t0 == take_bits(b, 3)
        t1 == take_bits(t0.rest, 6)
        t2 == take_array(t1.rest, 5, 6, <<>>)
        t3 == take_array(t2.rest, 5, 6, <<>>)
        t4 == take_array(t3.rest, 5, 6, <<>>)
        t5 == take_bits(t4.rest, 29)
    IN  [partition |-> NatOf(t1.ret), r |-> t2.ret, g |-> t3.ret, b |-> t4.ret,
         index_data |-> U64(t5.ret)]

Block3_decode(b) ==
    LET t0 == take_bits(b, 4)
        t1 == take_bits(t0.rest, 6)
        t2 == take_array(t1.rest, 7, 4, <<>>)
        t3 == take_array(t2.rest, 7, 4, <<>>)
        t4 == take_array(t3.rest, 7, 4, <<>>)
        t5 == take_array(t4.rest, 1, 4, <<>>)
        t6 == take_bits(t5.rest, 30)
    IN  [partition |-> NatOf(t1.ret), r |-> t2.ret, g |-> t3.ret, b |-> t4.ret,
         p |-> t5.ret, index_data |-> U64(t6.ret)]

\* Block4::decode with the two index fields read with each other's width
Block4_decode_swapped(b) ==
    LET t0 == take_bits(b, 5)
        t1 == take_bits(t0.rest, 2)
        t2 == take_bits(t1.rest, 1)
        t3 == take_array(t2.rest, 5, 2, <<>>)
        t4 == take_array(t3.rest, 5, 2, <<>>)
        t5 == take_array(t4.rest, 5, 2, <<>>)
        t6 == take_array(t5.rest, 6, 2, <<>>)
        t7 == take_bits(t6.rest, 47)
        t8 == take_bits(t7.rest, 31)
    IN  [rot |-> from_u2(NatOf(t1.ret)), idx_mode |-> NatOf(t2.ret) # 0,
         r |-> t3.ret, g |-> t4.ret, b |-> t5.ret, a |-> t6.ret,
         index_data0 |-> U64(t7.ret), index_data1 |-> U64(t8.ret)]

Block4_decode(b) ==
    LET t0 == take_bits(b, 5)
        t1 == take_bits(t0.rest, 2)
        t2 == take_bits(t1.rest, 1)
        t3 == take_array(t2.rest, 5, 2, <<>>)
        t4 == take_array(t3.rest, 5, 2, <<>>)
        t5 == take_array(t4.rest, 5, 2, <<>>)
        t6 == take_array(t5.rest, 6, 2, <<>>)
        t7 == take_bits(t6.rest, 31)
        t8 == take_bits(t7.rest, 47)
    IN  [rot |-> from_u2(NatOf(t1.ret)), idx_mode |-> NatOf(t2.ret) # 0,
         r |-> t3.ret, g |-> t4.ret, b |-> t5.ret, a |-> t6.ret,
         index_data0 |-> U64(t7.ret), index_data1 |-> U64(t8.ret)]

Block5_decode(b) ==
    LET t0 == take_bits(b, 6)
        t1 == take_bits(t0.rest, 2)
        t2 == take_array(t1.rest, 7, 2, <<>>)
        t3 == take_array(t2.rest, 7, 2, <<>>)
        t4 == take_array(t3.rest, 7, 2, <<>>)
        t5 == take_array(t4.rest, 8, 2, <<>>)
        t6 == take_bits(t5.rest, 31)
        t7 == take_bits(t6.rest, 31)
    IN  [rot |-> from_u2(NatOf(t1.ret)),
         r |-> t2.ret, g |-> t3.ret, b |-> t4.ret, a |-> t5.ret,
         colors |-> U64(t6.ret), alpha |-> U64(t7.ret)]

Block6_decode(b) ==
    LET t0 == take_bits(b, 7)
        t1 == take_array(t0.rest, 7, 2, <<>>)
        t2 == take_array(t1.rest, 7, 2, <<>>)
        t3 == take_array(t2.rest, 7, 2, <<>>)
        t4 == take_array(t3.rest, 7, 2, <<>>)
        t5 == take_array(t4.rest, 1, 2, <<>>)
        t6 == take_bits(t5.rest, 63)
    IN  [r |-> t1.ret, g |-> t2.ret, b |-> t3.ret, a |-> t4.ret,
         p |-> t5.ret, index_data |-> U64(t6.ret)]

Block7_decode(b) ==
    LET t0 == take_bits(b, 8)
        t1 == take_bits(t0.rest, 6)
        t2 == take_array(t1.rest, 5, 4, <<>>)
        t3 == take_array(t2.rest, 5, 4, <<>>)
        t4 == take_array(t3.rest, 5, 4, <<>>)
        t5 == take_array(t4.rest, 5, 4, <<>>)
        t6 == take_array(t5.rest, 1, 4, <<>>)
        t7 == take_bits(t6.rest, 30)
    IN  [partition |-> NatOf(t1.ret), r |-> t2.ret, g |-> t3.ret, b |-> t4.ret,
         a |-> t5.ret, p |-> t6.ret, index_data |-> U64(t7.ret)]

\* BlockN::decode for N = m
BlockN_decode(m, b) ==
    CASE m = 0 -> Block0_decode(b) [] m = 1 -> Block1_decode(b)
      [] m = 2 -> Block2_decode(b) [] m = 3 -> Block3_decode(b)
      [] m = 4 -> Block4_decode(b) [] m = 5 -> Block5_decode(b)
      [] m = 6 -> Block6_decode(b) [] m = 7 -> Block7_decode(b)

----------------------------------------------------------------------------
(* bc7/encode.rs: put_bits and the BlockN writers *)

\* put_bits::<T, R, BITS>(&mut dest, value), 0 < BITS <= width of T: *dest
\* afterwards; value is given as the bits of T::from(value).  On bit strings,
\* *dest <<= BITS followed by *dest |= T::from(value) & mask puts the BITS
\* low bits of value below the bits of dest and drops the BITS high bits of
\* dest.  At BITS = width of T the shifts wrap to shifts by 0: mask is
\* (1 << 0) - 1 and *dest stays.
put_bits(dest, value, BITS) ==
    IF shift_overflows(Len(dest), BITS) THEN dest
    ELSE SubSeq(LowBits(value \o Zeros(Len(dest)), BITS) \o dest,
                1, Len(dest))

\* put_bits_array_rev with the array pushed first element first
RECURSIVE put_bits_array_fwd(_, _, _)
put_bits_array_fwd(dest, array, BITS) ==
    IF array = <<>> THEN dest
    ELSE put_bits_array_fwd(put_bits(dest, BitsOf(Head(array), 8), BITS),
                            Tail(array), BITS)

\* put_bits_array_rev::<u128, u8, BITS, N>(&mut dest, array): *dest afterwards
RECURSIVE put_bits_array_rev(_, _, _)
put_bits_array_rev(dest, array, BITS) ==
    IF array = <<>> THEN dest
    ELSE put_bits_array_rev(
             put_bits(dest, BitsOf(array[Len(array)], 8), BITS),
             SubSeq(array, 1, Len(array) - 1), BITS)

U128Zero == Zeros(128)
U8(v) == BitsOf(v, 8)
Bool(v) == IF v THEN <<1>> ELSE <<0>>

Block0_encode(v) ==
    LET s1 == put_bits(U128Zero, v.index_data, 45)
        s2 == put_bits_array_rev(s1, v.p, 1)
        s3 == put_bits_array_rev(s2, v.b, 4)
        s4 == put_bits_array_rev(s3, v.g, 4)
        s5 == put_bits_array_rev(s4, v.r, 4)
        s6 == put_bits(s5, U8(v.partition), 4)
        s7 == put_bits(s6, U8(1), 1)
    IN  Shl(s7, 0)

Block1_encode(v) ==
    LET s1 == put_bits(U128Zero, v.index_data, 46)
        s2 == put_bits_array_rev(s1, v.p, 1)
        s3 == put_bits_array_rev(s2, v.b, 6)
        s4 == put_bits_array_rev(s3, v.g, 6)
        s5 == put_bits_array_rev(s4, v.r, 6)
        s6 == put_bits(s5, U8(v.partition), 6)
        s7 == put_bits(s6, U8(1), 1)
    IN  Shl(s7, 1)

Block2_encode(v) ==
    LET s1 == put_bits(U128Zero, v.index_data, 29)
        s3 == put_bits_array_rev(s1, v.b, 5)
        s4 == put_bits_array_rev(s3, v.g, 5)
        s5 == put_bits_array_rev(s4, v.r, 5)
        s6 == put_bits(s5, U8(v.partition), 6)
        s7 == put_bits(s6, U8(1), 1)
    IN  Shl(s7, 2)

Block3_encode(v) ==
    LET s1 == put_bits(U128Zero, v.index_data, 30)
        s2 == put_bits_array_rev(s1, v.p, 1)
        s3 == put_bits_array_rev(s2, v.b, 7)
        s4 == put_bits_array_rev(s3, v.g, 7)
        s5 == put_bits_array_rev(s4, v.r, 7)
        s6 == put_bits(s5, U8(v.partition), 6)
        s7 == put_bits(s6, U8(1), 1)
    IN  Shl(s7, 3)

Block4_encode(v) ==
    LET s1 == put_bits(U128Zero, v.index_data1, 47)
        s2 == put_bits(s1, v.index_data0, 31)
        s3 == put_bits_array_rev(s2, v.a, 6)
        s4 == put_bits_array_rev(s3, v.b, 5)
        s5 == put_bits_array_rev(s4, v.g, 5)
        s6 == put_bits_array_rev(s5, v.r, 5)
        s7 == put_bits(s6, Bool(v.idx_mode), 1)
        s8 == put_bits(s7, U8(to_u2(v.rot)), 2)
        s9 == put_bits(s8, U8(1), 1)
    IN  Shl(s9, 4)

\* encode.rs names the two index fields of Block5 color_index_data and
\* alpha_index_data; they are the fields decode.rs names colors and alpha
Block5_encode(v) ==
    LET s1 == put_bits(U128Zero, v.alpha, 31)
        s2 == put_bits(s1, v.colors, 31)
        s3 == put_bits_array_rev(s2, v.a, 8)
        s4 == put_bits_array_rev(s3, v.b, 7)
        s5 == put_bits_array_rev(s4, v.g, 7)
        s6 == put_bits_array_rev(s5, v.r, 7)
        s7 == put_bits(s6, U8(to_u2(v.rot)), 2)
        s8 == put_bits(s7, U8(1), 1)
    IN  Shl(s8, 5)

Block6_encode(v) ==
    LET s1 == put_bits(U128Zero, v.index_data, 63)
        s2 == put_bits_array_rev(s1, v.p, 1)
        s3 == put_bits_array_rev(s2, v.a, 7)
        s4 == put_bits_array_rev(s3, v.b, 7)
        s5 == put_bits_array_rev(s4, v.g, 7)
        s6 == put_bits_array_rev(s5, v.r, 7)
        s7 == put_bits(s6, U8(1), 1)
    IN  Shl(s7, 6)

Block7_encode(v) ==
    LET s1 == put_bits(U128Zero, v.index_data, 30)
        s2 == put_bits_array_rev(s1, v.p, 1)
        s3 == put_bits_array_rev(s2, v.a, 5)
        s4 == put_bits_array_rev(s3, v.b, 5)
        s5 == put_bits_array_rev(s4, v.g, 5)
        s6 == put_bits_array_rev(s5, v.r, 5)
        s7 == put_bits(s6, U8(v.partition), 6)
        s8 == put_bits(s7, U8(1), 1)
    IN  Shl(s8, 7)

\* BlockN::encode for N = m
BlockN_encode(m, v) ==
    CASE m = 0 -> Block0_encode(v) [] m = 1 -> Block1_encode(v)
      [] m = 2 -> Block2_encode(v) [] m = 3 -> Block3_encode(v)
      [] m = 4 -> Block4_encode(v) [] m = 5 -> Block5_encode(v)
      [] m = 6 -> Block6_encode(v) [] m = 7 -> Block7_encode(v)


\* the two Block6 values encode_bc7_block emits
Block6_magenta(a) ==
    [r |-> <<127, 127>>, g |-> <<0, 0>>, b |-> <<127, 127>>, a |-> <<a, a>>,
     p |-> <<1, 1>>, index_data |-> Zeros(64)]

\* the Block5 value encode_bc7_block emits
Block5_transparent ==
    [rot |-> "No", r |-> <<0, 0>>, g |-> <<0, 0>>, b |-> <<0, 0>>,
     a |-> <<0, 0>>, colors |-> Zeros(64), alpha |-> Zeros(64)]

\* encode_bc7_block that takes a tile for transparent only when all four
\* channels of every texel are 0
encode_bc7_block_all_zero(px) ==
    IF \A i \in 1..16 : px[i] = <<0, 0, 0, 0>>
    THEN Block5_encode(Block5_transparent)
    ELSE IF \E i \in 1..16 : px[i][4] # 255
    THEN Block6_encode(Block6_magenta(31))
    ELSE Block6_encode(Block6_magenta(127))

\* encode_bc7_block(pixels), pixels the 16 texels in row-major order
encode_bc7_block(px) ==
    LET all_transparent == \A i \in 1..16 : px[i][4] = 0
        uses_transparency == \E i \in 1..16 : px[i][4] # 255
    IN  IF all_transparent THEN Block5_encode(Block5_transparent)
        ELSE IF uses_transparency THEN Block6_encode(Block6_magenta(31))
        ELSE Block6_encode(Block6_magenta(127))

----------------------------------------------------------------------------
(* bc7.rs: the partition and anchor tables decode.rs imports from its parent *)
(* module.  They are the fixed tables of the BC7 format; row p is partition  *)
(* p, column i is texel i in row-major order.                                *)

\* PARTITIONS_2[p][i]: the subset (0 or 1) of texel i in 2-subset partition p
PARTITIONS_2 ==
    << <<0,0,1,1,0,0,1,1,0,0,1,1,0,0,1,1>>,
       <<0,0,0,1,0,0,0,1,0,0,0,1,0,0,0,1>>,
       <<0,1,1,1,0,1,1,1,0,1,1,1,0,1,1,1>>,
       <<0,0,0,1,0,0,1,1,0,0,1,1,0,1,1,1>>,
       <<0,0,0,0,0,0,0,1,0,0,0,1,0,0,1,1>>,
       <<0,0,1,1,0,1,1,1,0,1,1,1,1,1,1,1>>,
       <<0,0,0,1,0,0,1,1,0,1,1,1,1,1,1,1>>,
       <<0,0,0,0,0,0,0,1,0,0,1,1,0,1,1,1>>,
       <<0,0,0,0,0,0,0,0,0,0,0,1,0,0,1,1>>,
       <<0,0,1,1,0,1,1,1,1,1,1,1,1,1,1,1>>,
       <<0,0,0,0,0,0,0,1,0,1,1,1,1,1,1,1>>,
       <<0,0,0,0,0,0,0,0,0,0,0,1,0,1,1,1>>,
       <<0,0,0,1,0,1,1,1,1,1,1,1,1,1,1,1>>,
       <<0,0,0,0,0,0,0,0,1,1,1,1,1,1,1,1>>,
       <<0,0,0,0,1,1,1,1,1,1,1,1,1,1,1,1>>,
       <<0,0,0,0,0,0,0,0,0,0,0,0,1,1,1,1>>,
       <<0,0,0,0,1,0,0,0,1,1,1,0,1,1,1,1>>,
       <<0,1,1,1,0,0,0,1,0,0,0,0,0,0,0,0>>,
       <<0,0,0,0,0,0,0,0,1,0,0,0,1,1,1,0>>,
       <<0,1,1,1,0,0,1,1,0,0,0,1,0,0,0,0>>,
       <<0,0,1,1,0,0,0,1,0,0,0,0,0,0,0,0>>,
       <<0,0,0,0,1,0,0,0,1,1,0,0,1,1,1,0>>,
       <<0,0,0,0,0,0,0,0,1,0,0,0,1,1,0,0>>,
       <<0,1,1,1,0,0,1,1,0,0,1,1,0,0,0,1>>,
       <<0,0,1,1,0,0,0,1,0,0,0,1,0,0,0,0>>,
       <<0,0,0,0,1,0,0,0,1,0,0,0,1,1,0,0>>,
       <<0,1,1,0,0,1,1,0,0,1,1,0,0,1,1,0>>,
       <<0,0,1,1,0,1,1,0,0,1,1,0,1,1,0,0>>,
       <<0,0,0,1,0,1,1,1,1,1,1,0,1,0,0,0>>,
       <<0,0,0,0,1,1,1,1,1,1,1,1,0,0,0,0>>,
       <<0,1,1,1,0,0,0,1,1,0,0,0,1,1,1,0>>,
       <<0,0,1,1,1,0,0,1,1,0,0,1,1,1,0,0>>,
       <<0,1,0,1,0,1,0,1,0,1,0,1,0,1,0,1>>,
       <<0,0,0,0,1,1,1,1,0,0,0,0,1,1,1,1>>,
       <<0,1,0,1,1,0,1,0,0,1,0,1,1,0,1,0>>,
       <<0,0,1,1,0,0,1,1,1,1,0,0,1,1,0,0>>,
       <<0,0,1,1,1,1,0,0,0,0,1,1,1,1,0,0>>,
       <<0,1,0,1,0,1,0,1,1,0,1,0,1,0,1,0>>,
       <<0,1,1,0,1,0,0,1,0,1,1,0,1,0,0,1>>,
       <<0,1,0,1,1,0,1,0,1,0,1,0,0,1,0,1>>,
       <<0,1,1,1,0,0,1,1,1,1,0,0,1,1,1,0>>,
       <<0,0,0,1,0,0,1,1,1,1,0,0,1,0,0,0>>,
       <<0,0,1,1,0,0,1,0,0,1,0,0,1,1,0,0>>,
       <<0,0,1,1,1,0,1,1,1,1,0,1,1,1,0,0>>,
       <<0,1,1,0,1,0,0,1,1,0,0,1,0,1,1,0>>,
       <<0,0,1,1,1,1,0,0,1,1,0,0,0,0,1,1>>,
       <<0,1,1,0,0,1,1,0,1,0,0,1,1,0,0,1>>,
       <<0,0,0,0,0,1,1,0,0,1,1,0,0,0,0,0>>,
       <<0,1,0,0,1,1,1,0,0,1,0,0,0,0,0,0>>,
       <<0,0,1,0,0,1,1,1,0,0,1,0,0,0,0,0>>,
       <<0,0,0,0,0,0,1,0,0,1,1,1,0,0,1,0>>,
       <<0,0,0,0,0,1,0,0,1,1,1,0,0,1,0,0>>,
       <<0,1,1,0,1,1,0,0,1,0,0,1,0,0,1,1>>,
       <<0,0,1,1,0,1,1,0,1,1,0,0,1,0,0,1>>,
       <<0,1,1,0,0,0,1,1,1,0,0,1,1,1,0,0>>,
       <<0,0,1,1,1,0,0,1,1,1,0,0,0,1,1,0>>,
       <<0,1,1,0,1,1,0,0,1,1,0,0,1,0,0,1>>,
       <<0,1,1,0,0,0,1,1,0,0,1,1,1,0,0,1>>,
       <<0,1,1,1,1,1,1,0,1,0,0,0,0,0,0,1>>,
       <<0,0,0,1,1,0,0,0,1,1,1,0,0,1,1,1>>,
       <<0,0,0,0,1,1,1,1,0,0,1,1,0,0,1,1>>,
       <<0,0,1,1,0,0,1,1,1,1,1,1,0,0,0,0>>,
       <<0,0,1,0,0,0,1,0,1,1,1,0,1,1,1,0>>,
       <<0,1,0,0,0,1,0,0,0,1,1,1,0,1,1,1>> >>

\* PARTITIONS_3[p][i]: the subset (0, 1 or 2) of texel i in 3-subset partition p
PARTITIONS_3 ==
    << <<0,0,1,1,0,0,1,1,0,2,2,1,2,2,2,2>>,
       <<0,0,0,1,0,0,1,1,2,2,1,1,2,2,2,1>>,
       <<0,0,0,0,2,0,0,1,2,2,1,1,2,2,1,1>>,
       <<0,2,2,2,0,0,2,2,0,0,1,1,0,1,1,1>>,
       <<0,0,0,0,0,0,0,0,1,1,2,2,1,1,2,2>>,
       <<0,0,1,1,0,0,1,1,0,0,2,2,0,0,2,2>>,
       <<0,0,2,2,0,0,2,2,1,1,1,1,1,1,1,1>>,
       <<0,0,1,1,0,0,1,1,2,2,1,1,2,2,1,1>>,
       <<0,0,0,0,0,0,0,0,1,1,1,1,2,2,2,2>>,
       <<0,0,0,0,1,1,1,1,1,1,1,1,2,2,2,2>>,
       <<0,0,0,0,1,1,1,1,2,2,2,2,2,2,2,2>>,
       <<0,0,1,2,0,0,1,2,0,0,1,2,0,0,1,2>>,
       <<0,1,1,2,0,1,1,2,0,1,1,2,0,1,1,2>>,
       <<0,1,2,2,0,1,2,2,0,1,2,2,0,1,2,2>>,
       <<0,0,1,1,0,1,1,2,1,1,2,2,1,2,2,2>>,
       <<0,0,1,1,2,0,0,1,2,2,0,0,2,2,2,0>>,
       <<0,0,0,1,0,0,1,1,0,1,1,2,1,1,2,2>>,
       <<0,1,1,1,0,0,1,1,2,0,0,1,2,2,0,0>>,
       <<0,0,0,0,1,1,2,2,1,1,2,2,1,1,2,2>>,
       <<0,0,2,2,0,0,2,2,0,0,2,2,1,1,1,1>>,
       <<0,1,1,1,0,1,1,1,0,2,2,2,0,2,2,2>>,
       <<0,0,0,1,0,0,0,1,2,2,2,1,2,2,2,1>>,
       <<0,0,0,0,0,0,1,1,0,1,2,2,0,1,2,2>>,
       <<0,0,0,0,1,1,0,0,2,2,1,0,2,2,1,0>>,
       <<0,1,2,2,0,1,2,2,0,0,1,1,0,0,0,0>>,
       <<0,0,1,2,0,0,1,2,1,1,2,2,2,2,2,2>>,
       <<0,1,1,0,1,2,2,1,1,2,2,1,0,1,1,0>>,
       <<0,0,0,0,0,1,1,0,1,2,2,1,1,2,2,1>>,
       <<0,0,2,2,1,1,0,2,1,1,0,2,0,0,2,2>>,
       <<0,1,1,0,0,1,1,0,2,0,0,2,2,2,2,2>>,
       <<0,0,1,1,0,1,2,2,0,1,2,2,0,0,1,1>>,
       <<0,0,0,0,2,0,0,0,2,2,1,1,2,2,2,1>>,
       <<0,0,0,0,0,0,0,2,1,1,2,2,1,2,2,2>>,
       <<0,2,2,2,0,0,2,2,0,0,1,2,0,0,1,1>>,
       <<0,0,1,1,0,0,1,2,0,0,2,2,0,2,2,2>>,
       <<0,1,2,0,0,1,2,0,0,1,2,0,0,1,2,0>>,
       <<0,0,0,0,1,1,1,1,2,2,2,2,0,0,0,0>>,
       <<0,1,2,0,1,2,0,1,2,0,1,2,0,1,2,0>>,
       <<0,1,2,0,2,0,1,2,1,2,0,1,0,1,2,0>>,
       <<0,0,1,1,2,2,0,0,1,1,2,2,0,0,1,1>>,
       <<0,0,1,1,1,1,2,2,2,2,0,0,0,0,1,1>>,
       <<0,1,0,1,0,1,0,1,2,2,2,2,2,2,2,2>>,
       <<0,0,0,0,0,0,0,0,2,1,2,1,2,1,2,1>>,
       <<0,0,2,2,1,1,2,2,0,0,2,2,1,1,2,2>>,
       <<0,0,2,2,0,0,1,1,0,0,2,2,0,0,1,1>>,
       <<0,2,2,0,1,2,2,1,0,2,2,0,1,2,2,1>>,
       <<0,1,0,1,2,2,2,2,2,2,2,2,0,1,0,1>>,
       <<0,0,0,0,2,1,2,1,2,1,2,1,2,1,2,1>>,
       <<0,1,0,1,0,1,0,1,0,1,0,1,2,2,2,2>>,
       <<0,2,2,2,0,1,1,1,0,2,2,2,0,1,1,1>>,
       <<0,0,0,2,1,1,1,2,0,0,0,2,1,1,1,2>>,
       <<0,0,0,0,2,1,1,2,2,1,1,2,2,1,1,2>>,
       <<0,2,2,2,0,1,1,1,0,1,1,1,0,2,2,2>>,
       <<0,0,0,2,1,1,1,2,1,1,1,2,0,0,0,2>>,
       <<0,1,1,0,0,1,1,0,0,1,1,0,2,2,2,2>>,
       <<0,0,0,0,0,0,0,0,2,1,1,2,2,1,1,2>>,
       <<0,1,1,0,0,1,1,0,2,2,2,2,2,2,2,2>>,
       <<0,0,2,2,0,0,1,1,0,0,1,1,0,0,2,2>>,
       <<0,0,2,2,1,1,2,2,1,1,2,2,0,0,2,2>>,
       <<0,0,0,0,0,0,0,0,0,0,0,0,2,1,1,2>>,
       <<0,0,0,2,0,0,0,1,0,0,0,2,0,0,0,1>>,
       <<0,2,2,2,1,2,2,2,0,2,2,2,1,2,2,2>>,
       <<0,1,0,1,2,2,2,2,2,2,2,2,2,2,2,2>>,
       <<0,1,1,1,2,0,1,1,2,2,0,1,2,2,2,0>> >>

\* ANCHOR_INDEX_2[p]: the anchor texel of subset 1 in 2-subset partition p
ANCHOR_INDEX_2 ==
    << 15, 15, 15, 15, 15, 15, 15, 15, 15, 15, 15, 15, 15, 15, 15, 15,
       15,  2,  8,  2,  2,  8,  8, 15,  2,  8,  2,  2,  8,  8,  2,  2,
       15, 15,  6,  8,  2,  8, 15, 15,  2,  8,  2,  2,  2, 15, 15,  6,
        6,  2,  6,  8, 15, 15,  2,  2, 15, 15, 15, 15, 15,  2,  2, 15 >>

----------------------------------------------------------------------------
(* bc7.rs: Rotation::apply and interpolate *)

\* a texel is <<r, g, b, a>>, the four bytes of an Rgba<u8>

\* Rotation::apply that swaps nothing
Rotation_none(rot, color) == color

\* Rotation::apply that exchanges red with alpha for every rot but No
Rotation_swap_red(rot, color) ==
    IF rot = "No" THEN color
    ELSE <<color[4], color[2], color[3], color[1]>>

\* Rotation::apply(&self, color)
Rotation_apply(rot, color) ==
    CASE rot = "No" -> color
      [] rot = "R" -> <<color[4], color[2], color[3], color[1]>>
      [] rot = "G" -> <<color[1], color[4], color[3], color[2]>>
      [] rot = "B" -> <<color[1], color[2], color[4], color[3]>>

WEIGHT2 == <<0, 21, 43, 64>>
WEIGHT3 == <<0, 9, 18, 27, 37, 46, 55, 64>>
WEIGHT4 == <<0, 4, 9, 13, 17, 21, 26, 30, 34, 38, 43, 47, 51, 55, 60, 64>>
WEIGHTS == <<WEIGHT2, WEIGHT3, WEIGHT4>>

\* interpolate with the two products exchanged: a weighted with W[index], b
\* with 64 - W[index]
interpolate_exchanged(BITS, a, b, index) ==
    LET da == WEIGHTS[BITS - 1][index + 1] * a
        db == (64 - WEIGHTS[BITS - 1][index + 1]) * b
    IN  [overflow |-> da + db + 32 >= 65536,
         ret |-> (((da + db + 32) % 65536) \div 64) % 256]

\* interpolate::<BITS>(a, b, index): u16 arithmetic, cut to u8 by the cast;
\* overflow tells whether a product or a sum left the range of u16
interpolate_checked(BITS, a, b, index) ==
    LET da == (64 - WEIGHTS[BITS - 1][index + 1]) * a
        db == WEIGHTS[BITS - 1][index + 1] * b
    IN  [overflow |-> da >= 65536 \/ db >= 65536 \/ da + db + 32 >= 65536,
         ret |-> (((da + db + 32) % 65536) \div 64) % 256]

\* interpolate::<BITS>(a, b, index) where it returns
interpolate(BITS, a, b, index) == interpolate_checked(BITS, a, b, index).ret

----------------------------------------------------------------------------
(* bc7/decode.rs: decode_bc7_block.  A tile is the 16 texels in row-major    *)
(* order (ret.iter_mut().flatten()); a call that panics has no tile.         *)

Ok(pixels) == [status |-> "ok", pixels |-> pixels]
Panic == [status |-> "panic", pixels |-> <<>>]

\* the loop's take_bits::<_, usize, w>(&mut index_data) calls, texel by
\* texel: widths[i] is the w of texel i, the result the 16 indices read
RECURSIVE take_indices(_, _, _)
take_indices(value, widths, acc) ==
    IF widths = <<>> THEN acc
    ELSE LET t == take_bits(value, Head(widths)) IN
         take_indices(t.rest, Tail(widths), Append(acc, NatOf(t.ret)))

\* e[0].map2(&e[1], |a, b| interpolate::<BITS>(a, b, i))
map2_interpolate(BITS, e0, e1, i) ==
    [c \in 1..Len(e0) |-> interpolate(BITS, e0[c], e1[c], i)]

\* the endpoints as decode_bc7_block hands them to interpolate, one tuple of
\* channels for each element n (from 1) of the endpoint arrays of data: the
\* closures e and a of the mode's arm.  Modes 0, 1 and 7 put the p-bit below
\* the value (x << 1 | p), shift by 8 - k and or with x >> k; modes 3 and 6
\* only put the p-bit below; modes 2, 4 and 5 shift the colours and or with
\* x >> k.  The alpha of mode 4 is a << 2 | a >> 6 when idx_mode is set and
\* data.a itself when it is not (decode.rs 159, 183-185); the alpha of
\* mode 5 is data.a itself (decode.rs 222).
endpoints(mode, data) ==
    LET m1(x, pbit) == or8(shl8(x, 1), pbit)
        m23(x, k) == or8(shl8(x, 8 - k), shr8(shl8(x, 8 - k), k))
        rgb(n, f(_)) == <<f(data.r[n]), f(data.g[n]), f(data.b[n])>>
        rgba(n, f(_)) ==
            <<f(data.r[n]), f(data.g[n]), f(data.b[n]), f(data.a[n])>>
        e0(n) == LET f(x) == m23(m1(x, data.p[n]), 5) IN rgb(n, f)
        e1(n) == LET f(x) == m23(m1(x, data.p[((n - 1) \div 2) + 1]), 7)
                 IN  rgb(n, f)
        e2(n) == LET f(x) == m23(x, 5) IN rgb(n, f)
        e3(n) == LET f(x) == m1(x, data.p[n]) IN rgb(n, f)
        e4(n) == LET f(x) == m23(x, 5) IN
                 rgb(n, f) \o <<IF data.idx_mode THEN m23(data.a[n], 6)
                                ELSE data.a[n]>>
        e5(n) == LET f(x) == m23(x, 7) IN rgb(n, f) \o <<data.a[n]>>
        e6(n) == LET f(x) == m1(x, data.p[n]) IN rgba(n, f)
        e7(n) == LET f(x) == m23(m1(x, data.p[n]), 6) IN rgba(n, f)
    IN  [n \in 1..Len(data.r) |->
            CASE mode = 0 -> e0(n) [] mode = 1 -> e1(n) [] mode = 2 -> e2(n)
              [] mode = 3 -> e3(n) [] mode = 4 -> e4(n) [] mode = 5 -> e5(n)
              [] mode = 6 -> e6(n) [] mode = 7 -> e7(n)] \o <<>>

\* the BITS of the take_bits::<_, usize, BITS>(&mut index_data) call of the
\* loop over the texels in the modes with partitions, texel by texel (i from
\* 1): modes 0, 2 and 3 read 2 bits and mode 1 reads 3 bits for every texel
\* (decode.rs 67, 91, 114, 136); mode 7 reads 1 bit when i == 0 or
\* i == ANCHOR_INDEX_2[subset], subset the subset of the texel, and 2 bits
\* otherwise (decode.rs 291-295)
index_widths(mode, partition) ==
    [i \in 1..16 |->
        CASE mode = 1 -> 3
          [] mode = 7 ->
                IF i - 1 = 0
                   \/ i - 1 = ANCHOR_INDEX_2[PARTITIONS_2[partition + 1][i] + 1]
                THEN 1 ELSE 2
          [] OTHER -> 2] \o <<>>

\* mode 0, decode.rs 48-71
decode_block0(block) ==
    LET data == Block0_decode(block)
        e(sub, i) == endpoints(0, data)[2 * sub + i + 1]
        subsets == [sub \in 0..2 |->
                       [i \in 0..7 |-> map2_interpolate(3, e(sub, 0), e(sub, 1), i)]]
        index == take_indices(data.index_data, index_widths(0, data.partition), <<>>)
        subset(i) == PARTITIONS_3[data.partition + 1][i]
    IN  Ok([i \in 1..16 |-> subsets[subset(i)][index[i]] \o <<255>>])

\* mode 1, decode.rs 72-95
decode_block1(block) ==
    LET data == Block1_decode(block)
        e(sub, i) == endpoints(1, data)[2 * sub + i + 1]
        subsets == [sub \in 0..1 |->
                       [i \in 0..7 |-> map2_interpolate(3, e(sub, 0), e(sub, 1), i)]]
        index == take_indices(data.index_data, index_widths(1, data.partition), <<>>)
        subset(i) == PARTITIONS_2[data.partition + 1][i]
    IN  Ok([i \in 1..16 |-> subsets[subset(i)][index[i]] \o <<255>>])

\* mode 2, decode.rs 96-118: subsets is an array of 2, indexed by the subset
\* of PARTITIONS_3; an index outside the array panics
decode_block2(block) ==
    LET data == Block2_decode(block)
        e(sub, i) == endpoints(2, data)[2 * sub + i + 1]
        subsets == [sub \in 0..1 |->
                       [i \in 0..3 |-> map2_interpolate(2, e(sub, 0), e(sub, 1), i)]]
        index == take_indices(data.index_data, index_widths(2, data.partition), <<>>)
        subset(i) == PARTITIONS_3[data.partition + 1][i]
    IN  IF \E i \in 1..16 : subset(i) \notin DOMAIN subsets THEN Panic
        ELSE Ok([i \in 1..16 |-> subsets[subset(i)][index[i]] \o <<255>>])

\* mode 3, decode.rs 119-140: subsets is built for sub = 0, 1, 2 from
\* data.r[2 * sub + i], an array of 4; an index outside the array panics
decode_block3(block) ==
    LET data == Block3_decode(block)
        e(sub, i) == endpoints(3, data)[2 * sub + i + 1]
        subsets == [sub \in 0..2 |->
                       [i \in 0..7 |-> map2_interpolate(3, e(sub, 0), e(sub, 1), i)]]
        index == take_indices(data.index_data, index_widths(3, data.partition), <<>>)
        subset(i) == PARTITIONS_2[data.partition + 1][i]
    IN  IF \E sub \in 0..2, i \in 0..1 : 2 * sub + i + 1 \notin DOMAIN data.r
        THEN Panic
        ELSE Ok([i \in 1..16 |-> subsets[subset(i)][index[i]] \o <<255>>])

\* mode 4, decode.rs 141-207
decode_block4(block) ==
    LET data == Block4_decode(block)
        e(i) == SubSeq(endpoints(4, data)[i + 1], 1, 3)
        a == [k \in 1..2 |-> endpoints(4, data)[k][4]]
        narrow == [i \in 1..16 |-> IF i = 1 THEN 1 ELSE 2]
        wide == [i \in 1..16 |-> IF i = 1 THEN 2 ELSE 3]
    IN  IF data.idx_mode
        THEN LET colors == [i \in 0..7 |-> map2_interpolate(3, e(0), e(1), i)]
                 alphas == [i \in 0..3 |-> interpolate(2, a[1], a[2], i)]
                 color_index == take_indices(data.index_data1, wide, <<>>)
                 alpha_index == take_indices(data.index_data0, narrow, <<>>)
             IN  Ok([i \in 1..16 |->
                        Rotation_apply(data.rot, colors[color_index[i]]
                                                 \o <<alphas[alpha_index[i]]>>)])
        ELSE LET colors == [i \in 0..3 |-> map2_interpolate(2, e(0), e(1), i)]
                 alphas == [i \in 0..7 |-> interpolate(3, a[1], a[2], i)]
                 color_index == take_indices(data.index_data0, narrow, <<>>)
                 alpha_index == take_indices(data.index_data1, wide, <<>>)
             IN  Ok([i \in 1..16 |->
                        Rotation_apply(data.rot, colors[color_index[i]]
                                                 \o <<alphas[alpha_index[i]]>>)])

\* mode 5, decode.rs 208-244
decode_block5(block) ==
    LET data == Block5_decode(block)
        e0 == SubSeq(endpoints(5, data)[1], 1, 3)
        e1 == SubSeq(endpoints(5, data)[2], 1, 3)
        a == [k \in 1..2 |-> endpoints(5, data)[k][4]]
        colors == [i \in 0..3 |-> map2_interpolate(2, e0, e1, i)]
        alphas == [i \in 0..3 |-> interpolate(2, a[1], a[2], i)]
        narrow == [i \in 1..16 |-> IF i = 1 THEN 1 ELSE 2]
        color_index == take_indices(data.colors, narrow, <<>>)
        alpha_index == take_indices(data.alpha, narrow, <<>>)
    IN  Ok([i \in 1..16 |->
               Rotation_apply(data.rot, colors[color_index[i]]
                                        \o <<alphas[alpha_index[i]]>>)])

\* mode 6, decode.rs 245-267
decode_block6(block) ==
    LET data == Block6_decode(block)
        e(k) == endpoints(6, data)[k + 1]
        colors == [i \in 0..15 |-> map2_interpolate(4, e(0), e(1), i)]
        index == take_indices(data.index_data,
                              [i \in 1..16 |-> IF i = 1 THEN 3 ELSE 4], <<>>)
    IN  Ok([i \in 1..16 |-> colors[index[i]]])

\* mode 7, decode.rs 268-299: the anchor test reads ANCHOR_INDEX_2[subset]
decode_block7(block) ==
    LET data == Block7_decode(block)
        e(sub, i) == endpoints(7, data)[2 * sub + i + 1]
        subsets == [sub \in 0..1 |->
                       [i \in 0..3 |-> map2_interpolate(2, e(sub, 0), e(sub, 1), i)]]
        subset(i) == PARTITIONS_2[data.partition + 1][i]
        index == take_indices(data.index_data,
                             index_widths(7, data.partition), <<>>)
    IN  Ok([i \in 1..16 |-> subsets[subset(i)][index[i]]])

\* decode_bc7_block with the modes from 8 up decoded as opaque black
decode_bc7_block_opaque(block) ==
    LET mode == trailing_zeros(block) IN
    CASE mode = 0 -> decode_block0(block) [] mode = 1 -> decode_block1(block)
      [] mode = 2 -> decode_block2(block) [] mode = 3 -> decode_block3(block)
      [] mode = 4 -> decode_block4(block) [] mode = 5 -> decode_block5(block)
      [] mode = 6 -> decode_block6(block) [] mode = 7 -> decode_block7(block)
      [] mode >= 8 -> Ok([i \in 1..16 |-> <<0, 0, 0, 255>>])

\* decode_bc7_block(block)
decode_bc7_block(block) ==
    LET mode == trailing_zeros(block) IN
    CASE mode = 0 -> decode_block0(block) [] mode = 1 -> decode_block1(block)
      [] mode = 2 -> decode_block2(block) [] mode = 3 -> decode_block3(block)
      [] mode = 4 -> decode_block4(block) [] mode = 5 -> decode_block5(block)
      [] mode = 6 -> decode_block6(block) [] mode = 7 -> decode_block7(block)
      [] mode >= 8 -> Ok([i \in 1..16 |-> <<0, 0, 0, 0>>])

----------------------------------------------------------------------------
(* The input archives of the model.  A template is one TOC record with its   *)
(* payload; an archive file is laid out from a sequence of templates, the    *)
(* payloads in TOC order behind `pad` unused bytes, the TOC behind them.     *)

Tmpl(tag, name, payload, dsize, w, h, u) ==
    [tag |-> tag, name |-> name, payload |-> payload, dsize |-> dsize,
     w |-> w, h |-> h, u |-> u]

NoUnks == << <<0, 0>>, <<0, 0>>, <<0, 0>> >>

\* "a": an image, 10 payload bytes inflating to 20
TmplA == Tmpl(0, <<97>>, <<160, 1, 2, 3, 4, 5, 6, 7, 8, 9>>, 20,
              8, 4, << <<1, 2>>, <<3, 5>>, <<8, 4>> >>)
\* "b": a sound, 6 payload bytes inflating to 8, metadata words all zero
TmplB == Tmpl(1, <<98>>, <<80, 11, 12, 13, 14, 15>>, 8, 0, 0, NoUnks)
\* "d/s": a sound whose metadata words are not zero
TmplS == Tmpl(1, <<100, 47, 115>>, <<16, 7>>, 1,
              2, 3, << <<4, 5>>, <<6, 7>>, <<8, 9>> >>)
\* "u": an entry of a file type that is neither 0 nor 1
TmplU == Tmpl(2, <<117>>, <<32, 21, 22>>, 2, 0, 0, NoUnks)
\* "c": an image with an empty payload
TmplC == Tmpl(0, <<99>>, <<>>, 0, 1, 1, << <<0, 0>>, <<0, 0>>, <<1, 1>> >>)

TemplateSeqs ==
    { <<>>, <<TmplA>>, <<TmplB>>, <<TmplS>>, <<TmplU>>, <<TmplC>>,
      <<TmplA, TmplB>>, <<TmplB, TmplA>>, <<TmplA, TmplC>>, <<TmplA, TmplA>>,
      <<TmplA, TmplS>>, <<TmplU, TmplA>>, <<TmplA, TmplU>>,
      <<TmplC, TmplB, TmplA>> }

Pads == {0, 1}

RECURSIVE TmplOffsets(_, _)
TmplOffsets(ts, at) ==
    IF ts = <<>> THEN <<>>
    ELSE <<at>> \o TmplOffsets(Tail(ts), at + Len(Head(ts).payload))

TmplTocBytes(t, offset) ==
    write_u32(t.tag) \o write_u32(t.dsize) \o write_u32(Len(t.payload))
    \o write_u32(t.u[1][1]) \o write_u32(t.u[1][2])
    \o write_u32(t.u[2][1]) \o write_u32(t.u[2][2])
    \o write_u32(t.u[3][1]) \o write_u32(t.u[3][2])
    \o write_u32(t.w) \o write_u32(t.h) \o write_u32(offset)
    \o write_u32(Len(t.name)) \o t.name

MkArchive(ts, pad) ==
    LET offs == TmplOffsets(ts, 4 + pad)
        payloads == Concat([i \in 1..Len(ts) |-> ts[i].payload])
    IN  write_u32(4 + pad + Len(payloads))
        \o [i \in 1..pad |-> 255]
        \o payloads
        \o write_u32(Len(ts))
        \o Concat([i \in 1..Len(ts) |-> TmplTocBytes(ts[i], offs[i])])

\* "\u{e9}": a sound whose name is one character of two bytes
TmplE == Tmpl(1, <<195, 169>>, <<16, 9>>, 1, 0, 0, NoUnks)
\* records whose names are not UTF-8: the byte 0xff, and 0xc3 followed by a
\* byte that continues nothing
TmplX == Tmpl(1, <<255>>, <<16, 8>>, 1, 0, 0, NoUnks)
TmplY == Tmpl(0, <<195, 40>>, <<16, 6>>, 1, 1, 1, NoUnks)

\* archives with a name that is not UTF-8
MalformedSeqs == { <<TmplX>>, <<TmplY>>, <<TmplA, TmplX>> }

WellFormedFiles ==
    { MkArchive(ts, pad) : ts \in TemplateSeqs \cup {<<TmplE>>}, pad \in Pads }

InputFiles ==
    WellFormedFiles \cup { MkArchive(ts, 0) : ts \in MalformedSeqs }

\* what a caller may put in entry.data
Raw12 == <<1, 2, 3, 4, 5, 6, 7, 8, 9, 10, 11, 12>>
\* the bytes of a replacement file that is put whole into entry.data
DataPool == { Raw12, <<>>, <<200, 201, 202>> }
\* the width, the height and the payload of a replacement dds file
SizePool == { <<16, 2, <<9, 8, 7>>>>, <<1, 1, <<>>>> }
OffsetPool == { <<7, 9>> }

\* the number of mutations between loading and writing
MaxMutations == 2
MaxPattern == 3
MaxIndexPattern == 2

----------------------------------------------------------------------------
(* The archive tool: read_toc, from_file_and_toc, mutations, write_to_file *)

DdsAtRest ==
    /\ dpc = "idle" /\ dwidth = <<>> /\ dheight = <<>>
    /\ dpayload = <<>> /\ dheader = <<>> /\ ddata = <<>> /\ dres = <<>>

DdsIdle == build = "none" /\ DdsAtRest

BitsIdle ==
    /\ spc = "idle" /\ sprog = <<>> /\ sdone = <<>> /\ sdest = <<>>
    /\ swidths = <<>> /\ staken = <<>>

TilesIdle ==
    /\ tpc = "idle" /\ tmode = "none" /\ timage = <<>> /\ tsize = <<>>
    /\ tlevel = <<>> /\ tblocks = <<>> /\ tfinished = <<>> /\ tres = <<>>
    /\ tlevels = <<>>

ReplaceIdle ==
    /\ rpc = "idle" /\ rentry = <<>> /\ rbefore = <<>> /\ rfile = <<>>

CommandIdle ==
    /\ cpc = "idle" /\ ccmd = "none" /\ chandle = "none" /\ cfile = <<>>
    /\ cdisk = <<>> /\ coutput = "none" /\ ctoc = <<>> /\ carchive = <<>>
    /\ cops = <<>> /\ cdone = 0 /\ ctasks = {}

InterpolateIdle ==
    ipc = "idle" /\ iargs = <<>> /\ iret = <<>>

ImageIdle ==
    mpc = "idle" /\ mdata = <<>> /\ msize = <<>> /\ mimage = <<>>

BlockIdle ==
    /\ bpc = "idle" /\ bmode = 0 /\ pixels_in = <<>> /\ bval = <<>>
    /\ blk = <<>>
    /\ fields = <<>> /\ tile = <<>>

Init ==
    /\ ImageIdle
    /\ InterpolateIdle
    /\ file \in InputFiles
    /\ pc = "open"
    /\ toc = <<>>
    /\ archive = <<>>
    /\ touched = {}
    /\ nmut = 0
    /\ out = <<>>
    /\ BlockIdle /\ DdsIdle /\ BitsIdle /\ TilesIdle /\ ReplaceIdle
    /\ CommandIdle

ReadToc ==
    /\ pc = "open"
    /\ LET r == read_toc(file) IN
        /\ pc' = IF r.ok THEN "toc"
                 ELSE IF r.panic THEN "panic" ELSE "io_error"
        /\ toc' = r.entries
    /\ UNCHANGED <<file, archive, touched, nmut, out>>
    /\ UNCHANGED notArchive

FromFileAndToc ==
    /\ pc = "toc"
    /\ LET r == from_file_and_toc(file, [entries |-> toc]) IN
        /\ pc' = IF r.status = "ok" THEN "loaded" ELSE "panic"
        /\ archive' = r.entries
    /\ UNCHANGED <<file, toc, touched, nmut, out>>
    /\ UNCHANGED notArchive

\* replace_one_entry on a file that is neither png nor dds, or on a dds file
\* whose header does not parse: entry.data = Data::Raw(data) is all it does
SetData(i, data) ==
    /\ pc = "loaded"
    /\ nmut < MaxMutations
    /\ i \in 1..Len(archive)
    /\ archive' = [archive EXCEPT ![i].data = Raw(data)]
    /\ touched' = touched \cup {i}
    /\ nmut' = nmut + 1
    /\ UNCHANGED <<file, pc, toc, out>>
    /\ UNCHANGED notArchive

\* replace_one_entry on a dds file whose header parses:
\* let encoding::FileType::Image { width, height, .. } = &mut entry.file_type
\* else { panic!(...) }; *width = header.width; *height = header.height;
\* data = rest.to_vec(); entry.data = Data::Raw(data), all in the one call; an
\* entry that is no Image ends the run
SetImageSize(i, w, h, rest) ==
    /\ pc = "loaded"
    /\ nmut < MaxMutations
    /\ i \in 1..Len(archive)
    /\ IF archive[i].file_type.tag = "Image"
       THEN /\ archive' = [archive EXCEPT ![i].file_type.width = w,
                                          ![i].file_type.height = h,
                                          ![i].data = Raw(rest)]
            /\ touched' = touched \cup {i}
            /\ pc' = pc
       ELSE /\ pc' = "panic"
            /\ UNCHANGED <<archive, touched>>
    /\ nmut' = nmut + 1
    /\ UNCHANGED <<file, toc, out>>
    /\ UNCHANGED notArchive

\* unks[1].0 = ...; unks[1].1 = ... on an Image entry
SetOffsetPair(i, x, y) ==
    /\ pc = "loaded"
    /\ nmut < MaxMutations
    /\ i \in 1..Len(archive)
    /\ archive[i].file_type.tag = "Image"
    /\ archive' = [archive EXCEPT
                       ![i].file_type.unks[2] = <<write_u32(x), write_u32(y)>>]
    /\ touched' = touched \cup {i}
    /\ nmut' = nmut + 1
    /\ UNCHANGED <<file, pc, toc, out>>
    /\ UNCHANGED notArchive

WriteToFile ==
    /\ pc = "loaded"
    /\ out' = write_to_file(archive)
    /\ pc' = "written"
    /\ UNCHANGED <<file, toc, archive, touched, nmut>>
    /\ UNCHANGED notArchive

Next ==
    \/ ReadToc
    \/ FromFileAndToc
    \/ \E i \in 1..3, d \in DataPool : SetData(i, d)
    \/ \E i \in 1..3, s \in SizePool : SetImageSize(i, s[1], s[2], s[3])
    \/ \E i \in 1..3, o \in OffsetPool : SetOffsetPair(i, o[1], o[2])
    \/ WriteToFile

Spec == Init /\ [][Next]_vars

----------------------------------------------------------------------------
(* The input blocks and BlockN values of the model *)

\* the channel arrays of pattern k, channel s, for n elements of w bits:
\* pattern 0 is every element at its maximum; eq makes the elements equal
Arr(n, w, k, s, eq) ==
    [i \in 1..n |->
        IF k = 0 THEN Pow2(w) - 1
        ELSE (k * 37 + s * 11 + (IF eq THEN 0 ELSE i * 5)) % Pow2(w)] \o <<>>

\* a channel array whose elements do not fit w bits
ArrOver(n, w) == [i \in 1..n |-> Pow2(w) + i] \o <<>>

\* the index field of pattern j, w bits wide, as a u64
IdxBits(w, j) ==
    [i \in 1..64 |->
        IF i > w THEN 0
        ELSE IF j = 0 THEN 0
        ELSE IF j = 1 THEN 1
        ELSE (i * j + (i \div 3)) % 2] \o <<>>

Patterns == 0..MaxPattern
IndexPatterns == 0..MaxIndexPattern
PartitionPool(w) == {0, 13, Pow2(w) - 1}
Rotations == {"No", "R", "G", "B"}

BlockValues(m) ==
    CASE m = 0 ->
           {[partition |-> pt, r |-> Arr(6, 4, k, 1, FALSE),
             g |-> Arr(6, 4, k, 2, FALSE), b |-> Arr(6, 4, k, 3, FALSE),
             p |-> Arr(6, 1, k, 4, FALSE), index_data |-> IdxBits(45, j)] :
               pt \in PartitionPool(4), k \in Patterns, j \in IndexPatterns}
      [] m = 1 ->
           {[partition |-> pt, r |-> Arr(4, 6, k, 1, FALSE),
             g |-> Arr(4, 6, k, 2, FALSE), b |-> Arr(4, 6, k, 3, FALSE),
             p |-> Arr(2, 1, k, 4, FALSE), index_data |-> IdxBits(46, j)] :
               pt \in PartitionPool(6), k \in Patterns, j \in IndexPatterns}
      [] m = 2 ->
           {[partition |-> pt, r |-> Arr(6, 5, k, 1, FALSE),
             g |-> Arr(6, 5, k, 2, FALSE), b |-> Arr(6, 5, k, 3, FALSE),
             index_data |-> IdxBits(29, j)] :
               pt \in PartitionPool(6), k \in Patterns, j \in IndexPatterns}
      [] m = 3 ->
           {[partition |-> pt, r |-> Arr(4, 7, k, 1, FALSE),
             g |-> Arr(4, 7, k, 2, FALSE), b |-> Arr(4, 7, k, 3, FALSE),
             p |-> Arr(4, 1, k, 4, FALSE), index_data |-> IdxBits(30, j)] :
               pt \in PartitionPool(6), k \in Patterns, j \in IndexPatterns}
      [] m = 4 ->
           {[rot |-> rot, idx_mode |-> im, r |-> Arr(2, 5, k, 1, eq),
             g |-> Arr(2, 5, k, 2, eq), b |-> Arr(2, 5, k, 3, eq),
             a |-> Arr(2, 6, k, 5, eq), index_data0 |-> IdxBits(31, j),
             index_data1 |-> IdxBits(47, MaxIndexPattern - j)] :
               rot \in Rotations, im \in BOOLEAN, k \in Patterns,
               eq \in BOOLEAN, j \in IndexPatterns}
           \cup {[rot |-> rot, idx_mode |-> im, r |-> <<0, 0>>,
                  g |-> <<0, 0>>, b |-> <<0, 0>>, a |-> a,
                  index_data0 |-> IF im THEN Zeros(64) ELSE IdxBits(31, 2),
                  index_data1 |-> IF im THEN IdxBits(47, 2) ELSE Zeros(64)] :
                    rot \in Rotations, im \in BOOLEAN,
                    a \in {<<0, 63>>, <<63, 0>>, <<21, 40>>}}
      [] m = 5 ->
           {[rot |-> rot, r |-> Arr(2, 7, k, 1, eq), g |-> Arr(2, 7, k, 2, eq),
             b |-> Arr(2, 7, k, 3, eq), a |-> Arr(2, 8, k, 5, eq),
             colors |-> IdxBits(31, j),
             alpha |-> IdxBits(31, MaxIndexPattern - j)] :
               rot \in Rotations, k \in Patterns, eq \in BOOLEAN,
               j \in IndexPatterns}
           \cup {[rot |-> "R", r |-> ArrOver(2, 7), g |-> <<1, 2>>,
                  b |-> <<3, 4>>, a |-> <<5, 6>>, colors |-> IdxBits(31, 1),
                  alpha |-> IdxBits(33, 1)]}
      [] m = 6 ->
           {[r |-> Arr(2, 7, k, 1, eq), g |-> Arr(2, 7, k, 2, eq),
             b |-> Arr(2, 7, k, 3, eq), a |-> Arr(2, 7, k, 5, eq),
             p |-> Arr(2, 1, k, 4, eq \/ pe), index_data |-> IdxBits(63, j)] :
               k \in Patterns, eq \in BOOLEAN, pe \in BOOLEAN,
               j \in IndexPatterns}
      [] m = 7 ->
           {[partition |-> pt, r |-> Arr(4, 5, k, 1, FALSE),
             g |-> Arr(4, 5, k, 2, FALSE), b |-> Arr(4, 5, k, 3, FALSE),
             a |-> Arr(4, 5, k, 5, FALSE), p |-> Arr(4, 1, k, 4, FALSE),
             index_data |-> IdxBits(30, j)] :
               pt \in PartitionPool(6), k \in Patterns, j \in IndexPatterns}
           \cup {[partition |-> 64 + 13, r |-> ArrOver(4, 5), g |-> <<1, 2, 3, 4>>,
                  b |-> <<5, 6, 7, 8>>, a |-> <<9, 10, 11, 12>>,
                  p |-> <<0, 1, 2, 3>>, index_data |-> IdxBits(30, 2)]}

\* 1u128 << i
OneBit(i) == [k \in 1..128 |-> IF k = i + 1 THEN 1 ELSE 0] \o <<>>

\* 0x00000000_aaaaaaac_00000000_00000020, the block of
\* tests::check_transparent_decoding
TransparentBlock ==
    BitsOf(32, 16) \o Zeros(16) \o Zeros(32)
        \o BitsOf(43692, 16) \o BitsOf(43690, 16) \o Zeros(32)

RawBlocks ==
    {OneBit(i) : i \in 0..127}
        \cup {Ones(128), Zeros(128), TransparentBlock,
              Shl(Ones(128), 8), Shl(Ones(128), 11), Shl(TransparentBlock, 3)}

\* the tiles given to encode_bc7_block: texel i is <<r, g, b, a>>
Texel(i, k, a) == <<(i * 16 + k * 7) % 256, (i * 5 + k) % 256, (k * 40) % 256, a>>

PixelTiles ==
    {[i \in 1..16 |-> Texel(i, k, 0)] : k \in Patterns}
        \cup {[i \in 1..16 |-> Texel(i, k, 255)] : k \in Patterns}
        \cup {[i \in 1..16 |-> Texel(i, k, IF i = t THEN 0 ELSE 255)] :
                  k \in Patterns, t \in {1, 16}}
        \cup {[i \in 1..16 |-> Texel(i, k, IF i = t THEN 254 ELSE 0)] :
                  k \in Patterns, t \in {1, 16}}
        \cup {[i \in 1..16 |-> <<0, 0, 0, 0>>]}

----------------------------------------------------------------------------
(* The block codec: BlockN::encode, BlockN::decode, decode_bc7_block *)

ArchiveIdle ==
    /\ file = <<>> /\ pc = "idle" /\ toc = <<>> /\ archive = <<>>
    /\ touched = {} /\ nmut = 0 /\ out = <<>>

InitBlock ==
    /\ ImageIdle
    /\ InterpolateIdle
    /\ ArchiveIdle /\ DdsIdle /\ BitsIdle /\ TilesIdle /\ ReplaceIdle
    /\ CommandIdle
    /\ bmode \in 0..7
    /\ fields = <<>>
    /\ tile = <<>>
    /\ \/ bpc = "value" /\ bval \in BlockValues(bmode) /\ blk = <<>>
                          /\ pixels_in = <<>>
       \/ bpc = "encoded" /\ bval = <<>> /\ blk \in RawBlocks /\ pixels_in = <<>>
       \/ bpc = "pixels" /\ bval = <<>> /\ blk = <<>>
                           /\ pixels_in \in PixelTiles

\* encode_bc7_block(pixels) for the texels at hand
EncodeBc7Block ==
    /\ bpc = "pixels"
    /\ blk' = encode_bc7_block(pixels_in)
    /\ bpc' = "encoded"
    /\ UNCHANGED <<bmode, pixels_in, bval, fields, tile>>
    /\ UNCHANGED notBlock

\* BlockN::encode(self) for the value at hand
EncodeBlock ==
    /\ bpc = "value"
    /\ blk' = BlockN_encode(bmode, bval)
    /\ bpc' = "encoded"
    /\ UNCHANGED <<bmode, pixels_in, bval, fields, tile>>
    /\ UNCHANGED notBlock

\* BlockN::decode(block) for the block at hand
DecodeFields ==
    /\ bpc = "encoded"
    /\ fields' = BlockN_decode(bmode, blk)
    /\ bpc' = "fields"
    /\ UNCHANGED <<bmode, pixels_in, bval, blk, tile>>
    /\ UNCHANGED notBlock

\* decode_bc7_block(block) for the block at hand
DecodeBlock ==
    /\ bpc = "fields"
    /\ tile' = decode_bc7_block(blk)
    /\ bpc' = "decoded"
    /\ UNCHANGED <<bmode, pixels_in, bval, blk, fields>>
    /\ UNCHANGED notBlock

NextBlock ==
    \/ EncodeBc7Block
    \/ EncodeBlock
    \/ DecodeFields
    \/ DecodeBlock

SpecBlock == InitBlock /\ [][NextBlock]_vars

----------------------------------------------------------------------------
(* dds.rs and align_up.  Here a u32 is the sequence of its four            *)
(* little-endian bytes, so that values up to 2^32 - 1 and the overflow of   *)
(* u32 arithmetic are in the model.  An overflowing + or * panics in a      *)
(* build with overflow checks (build = "debug") and wraps in a build        *)
(* without (build = "release"): a result carries the wrapped value and      *)
(* whether an operation on the way to it overflowed, and the step that      *)
(* calls the function panics when that is so in a build that checks.        *)

\* the u32 of the natural n < 2^31
U32(n) == write_u32(n)

\* a + b + carry on little-endian digit strings of equal length: one digit
\* more than a
RECURSIVE add_le(_, _, _)
add_le(a, b, carry) ==
    IF a = <<>> THEN <<carry>>
    ELSE LET t == Head(a) + Head(b) + carry
         IN  <<t % 256>> \o add_le(Tail(a), Tail(b), t \div 256)

\* a * m + carry for a digit m: one digit more than a
RECURSIVE mul_digit(_, _, _)
mul_digit(a, m, carry) ==
    IF a = <<>> THEN <<carry>>
    ELSE LET t == Head(a) * m + carry
         IN  <<t % 256>> \o mul_digit(Tail(a), m, t \div 256)

\* a * b on u32 digit strings: the 8 digits of the full product
RECURSIVE mul_le(_, _)
mul_le(a, b) ==
    IF b = <<>> THEN <<0, 0, 0, 0>>
    ELSE LET low == mul_digit(a, Head(b), 0) \o [i \in 1..(Len(b) - 1) |-> 0]
             high == <<0>> \o mul_le(a, Tail(b))
         IN  SubSeq(add_le(low, high, 0), 1, Len(low))

\* a / d for a natural d in 1..256: quotient of a u32, most significant
\* digit first in the division
div_small(a, d) ==
    LET r4 == a[4] % d
        r3 == (r4 * 256 + a[3]) % d
        r2 == (r3 * 256 + a[2]) % d
    IN  <<(r2 * 256 + a[1]) \div d, (r3 * 256 + a[2]) \div d,
          (r4 * 256 + a[3]) \div d, a[4] \div d>>

\* a <= b on digit strings of equal length
RECURSIVE le_le(_, _)
le_le(a, b) ==
    IF a = <<>> THEN TRUE
    ELSE IF a[Len(a)] # b[Len(b)] THEN a[Len(a)] < b[Len(b)]
    ELSE le_le(SubSeq(a, 1, Len(a) - 1), SubSeq(b, 1, Len(b) - 1))

\* the result of u32 arithmetic whose exact value is the digit string
\* `exact` (more than four digits): the wrapped value, and whether the exact
\* value does not fit
Value(v) == [overflow |-> FALSE, v |-> v]
checked(exact) ==
    [overflow |-> \E i \in 5..Len(exact) : exact[i] # 0,
     v |-> SubSeq(exact, 1, 4)]

\* align_up::<ALIGN>(v) that rounds down
align_down(ALIGN, v) ==
    Value(SubSeq(mul_digit(div_small(v, ALIGN), ALIGN, 0), 1, 4))

\* align_up::<ALIGN>(v) == ((v + (ALIGN - 1)) / ALIGN) * ALIGN
align_up(ALIGN, v) ==
    LET sum == checked(add_le(v, U32(ALIGN - 1), 0))
        product == checked(mul_digit(div_small(sum.v, ALIGN), ALIGN, 0))
    IN  [overflow |-> sum.overflow \/ product.overflow, v |-> product.v]

\* the number of bits of the natural n < 256
RECURSIVE bit_length(_)
bit_length(n) == IF n = 0 THEN 0 ELSE 1 + bit_length(n \div 2)

\* u32::leading_zeros
leading_zeros(v) ==
    IF \A i \in 1..4 : v[i] = 0 THEN 32
    ELSE LET top == CHOOSE i \in 1..4 :
                        v[i] # 0 /\ \A j \in (i + 1)..4 : v[j] = 0
         IN  32 - (8 * (top - 1) + bit_length(v[top]))

\* calculate_mipmap_count that counts one level more for a size that is no
\* power of two
calculate_mipmap_count_ceil(width, height) ==
    LET levels(v) ==
            IF \A i \in 1..4 : v[i] = 0 THEN 0
            ELSE LET below == SubSeq(add_le(v, <<255, 255, 255, 255>>, 0), 1, 4)
                 IN  32 - leading_zeros(below) + 1
        a == levels(width)
        b == levels(height)
    IN  U32(IF a >= b THEN a ELSE b)

\* calculate_mipmap_count(width, height)
calculate_mipmap_count(width, height) ==
    LET a == 32 - leading_zeros(width)
        b == 32 - leading_zeros(height)
    IN  U32(IF a >= b THEN a ELSE b)

\* create_dds_header(width, height): the DdsHeader, and whether computing
\* it overflowed
create_dds_header(width, height) ==
    LET aw == align_up(4, width)
        ah == align_up(4, height)
        size == checked(mul_le(aw.v, ah.v))
    IN  [overflow |-> aw.overflow \/ ah.overflow \/ size.overflow,
         height |-> height,
         width |-> width,
         pitch_or_linear_size |-> size.v,
         depth |-> U32(0),
         mipmap_count |-> calculate_mipmap_count(width, height),
         pixel_format |-> [four_cc |-> "DX10"],
         dx10_header |-> [resource_dimension |-> "Texture2D",
                          alpha_mode |-> "Straight"]]

\* DdsHeader::MAGIC, FourCC::DX10_BYTES
MAGIC == <<68, 68, 83, 32>>
DX10_BYTES == <<68, 88, 49, 48>>
\* DdsHeader::SIZE, PixelFormat::SIZE, Dx10Header::DXGI_FORMAT_BC7_UNORM
DdsHeader_SIZE == 124
PixelFormat_SIZE == 32
DXGI_FORMAT_BC7_UNORM == 98

\* n times the u32 0
ZeroWords(n) == [i \in 1..(4 * n) |-> 0] \o <<>>

\* ResourceDimension as u32 and AlphaMode as u32
ResourceDimension_u32(d) ==
    CASE d = "Texture1D" -> 2 [] d = "Texture2D" -> 3 [] d = "Texture3D" -> 4
AlphaMode_u32(m) ==
    CASE m = "Unknown" -> 0 [] m = "Straight" -> 1 [] m = "Premultiplied" -> 2
      [] m = "Opaque" -> 3 [] m = "Custom" -> 4

\* PixelFormat::write
PixelFormat_write(pf) ==
    U32(PixelFormat_SIZE) \o U32(4) \o DX10_BYTES \o ZeroWords(5)

\* Dx10Header::write
Dx10Header_write(h) ==
    U32(DXGI_FORMAT_BC7_UNORM) \o U32(ResourceDimension_u32(h.resource_dimension))
        \o U32(0) \o U32(1) \o U32(AlphaMode_u32(h.alpha_mode))

\* DdsHeader::write: flags 0xA1007, caps 0x401008
DdsHeader_write(h) ==
    MAGIC \o U32(DdsHeader_SIZE) \o U32(659463)
        \o h.height \o h.width \o h.pitch_or_linear_size \o h.depth
        \o h.mipmap_count \o ZeroWords(11) \o PixelFormat_write(h.pixel_format)
        \o U32(4198408) \o ZeroWords(4) \o Dx10Header_write(h.dx10_header)

\* the results of the parsers: a value and the cursor behind it, or an error
Parsed(value, pos) == [ok |-> TRUE, value |-> value, pos |-> pos]
Err(error) == [ok |-> FALSE, error |-> error]

\* r.read_u32::<LE>() succeeds for the n words at byte offset pos
HasWords(data, pos, n) == pos + 4 * n <= Len(data)
\* the word read at byte offset pos, as its four bytes
WordAt(data, pos) == SubSeq(data, pos + 1, pos + 4)

\* PixelFormat::parse, the cursor at pos
PixelFormat_parse(data, pos) ==
    IF ~HasWords(data, pos, 1) THEN Err("Io")
    ELSE IF WordAt(data, pos) # U32(PixelFormat_SIZE)
    THEN Err("WrongPixelFormatSize")
    ELSE IF ~HasWords(data, pos + 4, 2) THEN Err("Io")
    ELSE IF WordAt(data, pos + 8) # DX10_BYTES THEN Err("UnknownFourCC")
    ELSE IF ~HasWords(data, pos + 12, 5) THEN Err("Io")
    ELSE Parsed([four_cc |-> "DX10"], pos + 32)

\* Dx10Header::parse that takes the alpha mode from the misc flag word
Dx10Header_parse_misc(data, pos) ==
    IF ~HasWords(data, pos, 1) THEN Err("Io")
    ELSE IF WordAt(data, pos) # U32(DXGI_FORMAT_BC7_UNORM)
    THEN Err("UnknownFormat")
    ELSE IF ~HasWords(data, pos + 4, 1) THEN Err("Io")
    ELSE IF WordAt(data, pos + 4) \notin {U32(2), U32(3), U32(4)}
    THEN Err("UnknownResourceDimension")
    ELSE IF ~HasWords(data, pos + 8, 3) THEN Err("Io")
    ELSE IF WordAt(data, pos + 8) \notin {U32(0), U32(1), U32(2), U32(3), U32(4)}
    THEN Err("UnknownAlphaMode")
    ELSE Parsed(
           [resource_dimension |->
                CASE WordAt(data, pos + 4) = U32(2) -> "Texture1D"
                  [] WordAt(data, pos + 4) = U32(3) -> "Texture2D"
                  [] WordAt(data, pos + 4) = U32(4) -> "Texture3D",
            alpha_mode |->
                CASE WordAt(data, pos + 8) = U32(0) -> "Unknown"
                  [] WordAt(data, pos + 8) = U32(1) -> "Straight"
                  [] WordAt(data, pos + 8) = U32(2) -> "Premultiplied"
                  [] WordAt(data, pos + 8) = U32(3) -> "Opaque"
                  [] WordAt(data, pos + 8) = U32(4) -> "Custom"],
           pos + 20)

\* Dx10Header::parse, the cursor at pos
Dx10Header_parse(data, pos) ==
    IF ~HasWords(data, pos, 1) THEN Err("Io")
    ELSE IF WordAt(data, pos) # U32(DXGI_FORMAT_BC7_UNORM)
    THEN Err("UnknownFormat")
    ELSE IF ~HasWords(data, pos + 4, 1) THEN Err("Io")
    ELSE IF WordAt(data, pos + 4) \notin {U32(2), U32(3), U32(4)}
    THEN Err("UnknownResourceDimension")
    ELSE IF ~HasWords(data, pos + 8, 3) THEN Err("Io")
    ELSE IF WordAt(data, pos + 16) \notin {U32(0), U32(1), U32(2), U32(3), U32(4)}
    THEN Err("UnknownAlphaMode")
    ELSE Parsed(
           [resource_dimension |->
                CASE WordAt(data, pos + 4) = U32(2) -> "Texture1D"
                  [] WordAt(data, pos + 4) = U32(3) -> "Texture2D"
                  [] WordAt(data, pos + 4) = U32(4) -> "Texture3D",
            alpha_mode |->
                CASE WordAt(data, pos + 16) = U32(0) -> "Unknown"
                  [] WordAt(data, pos + 16) = U32(1) -> "Straight"
                  [] WordAt(data, pos + 16) = U32(2) -> "Premultiplied"
                  [] WordAt(data, pos + 16) = U32(3) -> "Opaque"
                  [] WordAt(data, pos + 16) = U32(4) -> "Custom"],
           pos + 20)

\* DdsHeader::parse, the cursor at 0
DdsHeader_parse(data) ==
    IF ~HasWords(data, 0, 1) THEN Err("Io")
    ELSE IF WordAt(data, 0) # MAGIC THEN Err("WrongDDSMagic")
    ELSE IF ~HasWords(data, 4, 1) THEN Err("Io")
    ELSE IF WordAt(data, 4) # U32(DdsHeader_SIZE) THEN Err("WrongDDSHeaderSize")
    ELSE IF ~HasWords(data, 8, 17) THEN Err("Io")
    ELSE LET pixel_format == PixelFormat_parse(data, 76) IN
         IF ~pixel_format.ok THEN pixel_format
         ELSE IF ~HasWords(data, pixel_format.pos, 5) THEN Err("Io")
         ELSE LET dx10_header == Dx10Header_parse(data, pixel_format.pos + 20) IN
              IF ~dx10_header.ok THEN dx10_header
              ELSE Parsed([height |-> WordAt(data, 12),
                           width |-> WordAt(data, 16),
                           pitch_or_linear_size |-> WordAt(data, 20),
                           depth |-> WordAt(data, 24),
                           mipmap_count |-> WordAt(data, 28),
                           pixel_format |-> pixel_format.value,
                           dx10_header |-> dx10_header.value],
                          dx10_header.pos)

\* parse_dds(data): the header and the bytes behind it, or the error
parse_dds(data) ==
    LET header == DdsHeader_parse(data) IN
    IF ~header.ok THEN header
    ELSE [ok |-> TRUE, header |-> header.value,
          rest |-> SubSeq(data, header.pos + 1, Len(data))]

----------------------------------------------------------------------------
(* The DDS functions: create_dds_header, DdsHeader::write, parse_dds,       *)
(* calculate_mipmap_count, align_up::<4>                                    *)

\* the widths and heights given to the functions
Sizes ==
    {U32(n) : n \in {0, 1, 2, 3, 4, 5, 6, 7, 8, 9, 512, 1024, 65536, 65537}}
        \cup {<<0, 0, 0, 128>>, <<1, 0, 0, 128>>, <<251, 255, 255, 255>>,
              <<252, 255, 255, 255>>, <<253, 255, 255, 255>>,
              <<254, 255, 255, 255>>, <<255, 255, 255, 255>>}

Payloads == {<<>>, <<1, 2, 3>>, MAGIC \o U32(DdsHeader_SIZE)}

\* data with the word at byte offset pos replaced
WithWord(data, pos, word) ==
    SubSeq(data, 1, pos) \o word \o SubSeq(data, pos + 5, Len(data))

\* a well-formed file of an 8x4 image, and the byte offsets of the fields
\* the parser validates
GoodHeader ==
    [overflow |-> FALSE, height |-> U32(4), width |-> U32(8),
     pitch_or_linear_size |-> U32(32), depth |-> U32(0),
     mipmap_count |-> U32(4), pixel_format |-> [four_cc |-> "DX10"],
     dx10_header |-> [resource_dimension |-> "Texture2D",
                      alpha_mode |-> "Straight"]]
GoodFile == DdsHeader_write(GoodHeader) \o <<9, 8, 7>>
CheckedOffsets == <<0, 4, 76, 84, 128, 132, 144>>
BadWord == <<5, 0, 0, 0>>

\* files with up to MaxBadFields of the validated fields invalid, and files
\* with every other resource dimension and alpha mode
MaxBadFields == 2
BadFieldSets == {s \in SUBSET (1..7) : Cardinality(s) <= MaxBadFields}
RECURSIVE WithBadFields(_, _)
WithBadFields(data, s) ==
    IF s = {} THEN data
    ELSE LET k == CHOOSE k \in s : TRUE
         IN  WithBadFields(WithWord(data, CheckedOffsets[k], BadWord), s \ {k})
FullFiles ==
    {WithBadFields(GoodFile, s) : s \in BadFieldSets}
        \cup {WithWord(GoodFile, 132, U32(d)) : d \in {1, 2, 4}}
        \cup {WithWord(GoodFile, 144, U32(m)) : m \in {0, 2, 3, 4, 6}}
        \cup {WithWord(GoodFile, 144, <<1, 0, 0, 1>>),
              WithWord(WithWord(GoodFile, 136, BadWord), 140, BadWord)}

\* the lengths the files are cut to: every length around a validated field
CutLengths == {0, 2, 4, 6, 8, 20, 76, 79, 80, 84, 87, 88, 100, 108, 127, 128,
               130, 132, 135, 136, 144, 146, 147}
DdsInputs ==
    FullFiles \cup {SubSeq(f, 1, n) : f \in FullFiles, n \in CutLengths}

InitDds ==
    /\ ImageIdle
    /\ InterpolateIdle
    /\ ArchiveIdle /\ BlockIdle /\ BitsIdle /\ TilesIdle /\ ReplaceIdle
    /\ CommandIdle
    /\ build \in {"debug", "release"}
    /\ dheader = <<>> /\ dres = <<>>
    /\ \/ dpc = "args" /\ dwidth \in Sizes /\ dheight \in Sizes
                      /\ dpayload \in Payloads /\ ddata = <<>>
       \/ dpc = "written" /\ dwidth = <<>> /\ dheight = <<>>
                         /\ dpayload = <<>> /\ ddata \in DdsInputs

\* create_dds_header(width, height)
CreateDdsHeader ==
    /\ dpc = "args"
    /\ LET h == create_dds_header(dwidth, dheight) IN
        /\ dheader' = h
        /\ dpc' = IF h.overflow /\ build = "debug" THEN "panic" ELSE "header"
    /\ UNCHANGED <<build, dwidth, dheight, dpayload, ddata, dres>>
    /\ UNCHANGED notDds

\* header.write(&mut file), then the payload
WriteHeader ==
    /\ dpc = "header"
    /\ ddata' = DdsHeader_write(dheader) \o dpayload
    /\ dpc' = "written"
    /\ UNCHANGED <<build, dwidth, dheight, dpayload, dheader, dres>>
    /\ UNCHANGED notDds

\* parse_dds(&data)
ParseDds ==
    /\ dpc = "written"
    /\ dres' = parse_dds(ddata)
    /\ dpc' = "parsed"
    /\ UNCHANGED <<build, dwidth, dheight, dpayload, dheader, ddata>>
    /\ UNCHANGED notDds

\* calculate_mipmap_count(width, height)
CalculateMipmapCount ==
    /\ dpc = "args"
    /\ dres' = calculate_mipmap_count(dwidth, dheight)
    /\ dpc' = "counted"
    /\ UNCHANGED <<build, dwidth, dheight, dpayload, dheader, ddata>>
    /\ UNCHANGED notDds

\* align_up::<4>(width)
AlignUp ==
    /\ dpc = "args"
    /\ dres' = align_up(4, dwidth)
    /\ dpc' = IF align_up(4, dwidth).overflow /\ build = "debug"
              THEN "panic" ELSE "aligned"
    /\ UNCHANGED <<build, dwidth, dheight, dpayload, dheader, ddata>>
    /\ UNCHANGED notDds

NextDds ==
    \/ CreateDdsHeader
    \/ WriteHeader
    \/ ParseDds
    \/ CalculateMipmapCount
    \/ AlignUp

SpecDds == InitDds /\ [][NextDds]_vars

----------------------------------------------------------------------------
(* The bit stream: put_bits and put_bits_array_rev into a zero state, then  *)
(* take_bits, as BlockN::encode and BlockN::decode use them.  A field is    *)
(* one call that injects: a value of BITS bits, or an array of u8 of BITS   *)
(* bits each.                                                               *)

MaxFields == 2

\* the widths of T in the model: u8 and u128
BitWidths == {8, 128}

\* bit patterns of n bits
Alt(n, k) == [i \in 1..n |-> (i + k) % 2] \o <<>>

ValueFields(W) ==
    UNION {{[array |-> FALSE, BITS |-> n, value |-> v] :
                v \in {Ones(n), Alt(n, 0), Alt(n, 1)}} : n \in {1, 3, 5, W}}

ArrayFields ==
    {[array |-> TRUE, BITS |-> 2, value |-> <<1, 2>>],
     [array |-> TRUE, BITS |-> 2, value |-> <<3, 0, 1>>],
     [array |-> TRUE, BITS |-> 3, value |-> <<5, 1, 6>>],
     [array |-> TRUE, BITS |-> 8, value |-> <<165>>]}

FieldWidth(f) == IF f.array THEN f.BITS * Len(f.value) ELSE f.BITS

RECURSIVE TotalWidth(_)
TotalWidth(prog) ==
    IF prog = <<>> THEN 0 ELSE FieldWidth(Head(prog)) + TotalWidth(Tail(prog))

RECURSIVE ProgramsOfLen(_, _)
ProgramsOfLen(W, n) ==
    IF n = 0 THEN {<<>>}
    ELSE {Append(prog, f) : prog \in ProgramsOfLen(W, n - 1),
                            f \in ValueFields(W) \cup ArrayFields}

\* the sequences of at most MaxFields fields that fit a T of W bits
Programs(W) ==
    {prog \in UNION {ProgramsOfLen(W, n) : n \in 1..MaxFields} :
        TotalWidth(prog) <= W}

\* the BITS of the take_bits calls that read prog back: the field injected
\* last is read first, an array of N elements by N calls
RECURSIVE TakeWidths(_)
TakeWidths(prog) ==
    IF prog = <<>> THEN <<>>
    ELSE LET f == prog[Len(prog)] IN
         (IF f.array THEN [i \in 1..Len(f.value) |-> f.BITS] \o <<>>
          ELSE <<f.BITS>>)
         \o TakeWidths(SubSeq(prog, 1, Len(prog) - 1))

InitBits ==
    /\ ImageIdle
    /\ InterpolateIdle
    /\ ArchiveIdle /\ BlockIdle /\ DdsAtRest /\ TilesIdle /\ ReplaceIdle
    /\ CommandIdle
    /\ build \in {"debug", "release"}
    /\ spc = "put"
    /\ \E W \in BitWidths :
        /\ sprog \in Programs(W)
        /\ sdest = Zeros(W)
    /\ swidths = TakeWidths(sprog)
    /\ sdone = <<>>
    /\ staken = <<>>

\* put_bits::<T, R, BITS>(&mut dest, value) for the next field
PutBits ==
    /\ spc = "put"
    /\ sprog # <<>>
    /\ ~Head(sprog).array
    /\ LET f == Head(sprog) IN
        IF shift_overflows(Len(sdest), f.BITS) /\ build = "debug"
        THEN /\ spc' = "panic"
             /\ UNCHANGED <<sprog, sdone, sdest>>
        ELSE /\ sdest' = put_bits(sdest, f.value, f.BITS)
             /\ sdone' = Append(sdone, f)
             /\ sprog' = Tail(sprog)
             /\ spc' = IF Tail(sprog) = <<>> THEN "take" ELSE "put"
    /\ UNCHANGED <<swidths, staken>>
    /\ UNCHANGED notBits

\* put_bits_array_rev::<T, u8, BITS, N>(&mut dest, array) for the next field
PutBitsArrayRev ==
    /\ spc = "put"
    /\ sprog # <<>>
    /\ Head(sprog).array
    /\ LET f == Head(sprog) IN
        IF shift_overflows(Len(sdest), f.BITS) /\ build = "debug"
        THEN /\ spc' = "panic"
             /\ UNCHANGED <<sprog, sdone, sdest>>
        ELSE /\ sdest' = put_bits_array_rev(sdest, f.value, f.BITS)
             /\ sdone' = Append(sdone, f)
             /\ sprog' = Tail(sprog)
             /\ spc' = IF Tail(sprog) = <<>> THEN "take" ELSE "put"
    /\ UNCHANGED <<swidths, staken>>
    /\ UNCHANGED notBits

\* take_bits::<T, R, BITS>(&mut value) for the next width
TakeBits ==
    /\ spc = "take"
    /\ swidths # <<>>
    /\ IF \/ ~width_asserted(Len(sdest), Head(swidths))
          \/ shift_overflows(Len(sdest), Head(swidths)) /\ build = "debug"
       THEN /\ spc' = "panic"
            /\ UNCHANGED <<sdest, swidths, staken>>
       ELSE LET t == take_bits(sdest, Head(swidths)) IN
            /\ staken' = Append(staken, t.ret)
            /\ sdest' = t.rest
            /\ swidths' = Tail(swidths)
            /\ spc' = IF Tail(swidths) = <<>> THEN "done" ELSE "take"
    /\ UNCHANGED <<sprog, sdone>>
    /\ UNCHANGED notBits

NextBits ==
    \/ PutBits
    \/ PutBitsArrayRev
    \/ TakeBits

SpecBits == InitBits /\ [][NextBits]_vars

----------------------------------------------------------------------------
(* bc7/encode.rs: encode_image_par and encode_bc7.  An image is its width,  *)
(* its height and its pixels in row-major order.  The tile tasks of a level *)
(* run on a thread pool: they finish in any order, and collect() puts their *)
(* results in the order of the parallel iterator, whatever the order they   *)
(* finished in.                                                             *)

MaxSide == 6

\* u128::to_le_bytes
to_le_bytes(block) ==
    [k \in 1..(Len(block) \div 8) |->
        NatOf(SubSeq(block, 8 * k - 7, 8 * k))] \o <<>>

\* align_up::<4>(v) and v / 4 for the sizes of the model, far from overflow
tiles_across(v) == read_u32(align_up(4, U32(v)).v, 0) \div 4

\* image.get_pixel_checked(x, y), <<>> for None
get_pixel_checked(image, x, y) ==
    IF x < image.width /\ y < image.height
    THEN image.pixels[y * image.width + x + 1]
    ELSE <<>>

\* the pixels array of the tile with origin (x, y): Rgba([0; 4]) where the
\* image has no pixel
tile_pixels(image, x, y) ==
    [i \in 1..16 |->
        LET pixel == get_pixel_checked(image, x + ((i - 1) % 4),
                                              y + (i - 1) \div 4)
        IN  IF pixel # <<>> THEN pixel ELSE <<0, 0, 0, 0>>] \o <<>>

\* the tile origins (4 * x, 4 * y) in the order of the parallel iterator:
\* y in 0..aheight / 4 outside, x in 0..awidth / 4 inside
tile_origins(image) ==
    LET across == tiles_across(image.width)
        down == tiles_across(image.height)
    IN  [j \in 1..(across * down) |->
            <<4 * ((j - 1) % across), 4 * ((j - 1) \div across)>>] \o <<>>

\* one tile task: encoder(pixels).to_le_bytes()
tile_task(image, origin) ==
    to_le_bytes(encode_bc7_block(tile_pixels(image, origin[1], origin[2])))

\* .collect() of the parallel iterator into a Vec<u8>: the results in the
\* order of the iterator
collect(blocks, finished) == Concat(blocks)

\* image::imageops::resize(&image, width, height, FilterType::CatmullRom).
\* The filter is the image library's; here the pixel at (x, y) is the pixel of
\* the source at the same relative place.  For an image whose pixels are all
\* equal, the only ones encode_bc7 is given here, every filter whose weights
\* sum to 1 gives this result.
resize(image, width, height) ==
    [width |-> width, height |-> height,
     pixels |-> [i \in 1..(width * height) |->
        image.pixels[((((i - 1) \div width) * image.height) \div height)
                         * image.width
                     + ((((i - 1) % width) * image.width) \div width) + 1]]
        \o <<>>]

Sides == 1..MaxSide

\* an image of one colour
Plain(w, h, pixel) ==
    [width |-> w, height |-> h, pixels |-> [i \in 1..(w * h) |-> pixel] \o <<>>]

\* an opaque image but for the tile of index hole (0-based), whose pixels
\* are transparent
Holed(w, h, hole) ==
    [width |-> w, height |-> h,
     pixels |-> [i \in 1..(w * h) |->
        IF ((i - 1) % w) \div 4 + 2 * (((i - 1) \div w) \div 4) = hole
        THEN <<9, 9, 9, 0>> ELSE <<200, 100, 50, 255>>] \o <<>>]

PlainImages ==
    {Plain(w, h, pixel) : w \in Sides, h \in Sides,
                          pixel \in {<<200, 100, 50, 255>>, <<0, 0, 0, 0>>,
                                     <<7, 8, 9, 128>>}}

HoledImages ==
    {Holed(w, h, hole) : w \in Sides \ 1..4, h \in Sides \ 1..4,
                         hole \in 0..3}

no_blocks(image) == [j \in 1..Len(tile_origins(image)) |-> <<>>] \o <<>>

----------------------------------------------------------------------------
(* bc7/decode.rs: decode_bc7.  An image is its width, its height and its     *)
(* pixels in row-major order, as in the encoder.                             *)

\* u128::from_le_bytes
from_le_bytes(bytes) ==
    [k \in 1..(8 * Len(bytes)) |->
        BitsOf(bytes[((k - 1) \div 8) + 1], 8)[((k - 1) % 8) + 1]] \o <<>>

\* data.chunks_exact(16).map(u128::from_le_bytes): the bytes behind the last
\* whole chunk are left out
chunks_exact_16(data) ==
    [k \in 1..(Len(data) \div 16) |->
        from_le_bytes(SubSeq(data, 16 * k - 15, 16 * k))] \o <<>>

\* pos_iter: the origins (4 * x, 4 * y), x running first
pos_iter(awidth, aheight) ==
    [k \in 1..((aheight \div 4) * (awidth \div 4)) |->
        <<4 * ((k - 1) % (awidth \div 4)), 4 * ((k - 1) \div (awidth \div 4))>>]
        \o <<>>

\* the loops over dy and dx: the texel [dy][dx] is written to (x + dx, y + dy)
\* when get_pixel_mut_checked finds that pixel in the image
put_tile(image, x, y, texels) ==
    [image EXCEPT !.pixels =
        [i \in 1..Len(image.pixels) |->
            LET px == (i - 1) % image.width
                py == (i - 1) \div image.width
            IN  IF px \in x..(x + 3) /\ py \in y..(y + 3)
                THEN texels[4 * (py - y) + (px - x) + 1]
                ELSE image.pixels[i]] \o <<>>]

\* the for loop over the tiles zipped with the positions: the texels of each
\* tile are put at its position, and a block decode_bc7_block panicked on
\* ends the call
RECURSIVE put_tiles(_, _, _)
put_tiles(image, tiles, positions) ==
    IF tiles = <<>> THEN [status |-> "ok", image |-> image]
    ELSE IF Head(tiles).status = "panic"
    THEN [status |-> "panic", image |-> <<>>]
    ELSE put_tiles(put_tile(image, Head(positions)[1], Head(positions)[2],
                            Head(tiles).pixels),
                   Tail(tiles), Tail(positions))

\* the blocks zipped with the positions, which ends with the shorter of the
\* two, each block decoded with decode_bc7_block
decode_blocks(image, blocks, positions) ==
    put_tiles(image,
              [k \in 1..Min(Len(blocks), Len(positions)) |->
                  decode_bc7_block(blocks[k])] \o <<>>,
              positions)

\* decode_bc7(data, width, height)
decode_bc7(data, width, height) ==
    LET awidth == read_u32(align_up(4, U32(width)).v, 0)
        aheight == read_u32(align_up(4, U32(height)).v, 0)
        block_count == (awidth * aheight) \div 16
        blocks == chunks_exact_16(data)
    IN  decode_blocks(Plain(width, height, <<0, 0, 0, 0>>),
                      SubSeq(blocks, 1, Min(Len(blocks), block_count)),
                      pos_iter(awidth, aheight))

----------------------------------------------------------------------------
(* The image encoder at work *)

InitTiles ==
    /\ ImageIdle
    /\ InterpolateIdle
    /\ ArchiveIdle /\ BlockIdle /\ DdsIdle /\ BitsIdle /\ ReplaceIdle
    /\ CommandIdle
    /\ tpc = "tiles"
    /\ \/ tmode = "level" /\ timage \in PlainImages \cup HoledImages
       \/ tmode = "bc7" /\ timage \in PlainImages
    /\ tsize = <<timage.width, timage.height>>
    /\ tlevel = timage
    /\ tblocks = no_blocks(timage)
    /\ tfinished = <<>>
    /\ tres = <<>>
    /\ tlevels = <<>>

\* a tile task of encode_image_par runs to its end
EncodeTile ==
    /\ tpc = "tiles"
    /\ \E j \in 1..Len(tblocks) :
        /\ tblocks[j] = <<>>
        /\ tblocks' = [tblocks EXCEPT
                          ![j] = tile_task(tlevel, tile_origins(tlevel)[j])]
        /\ tfinished' = Append(tfinished, j)
    /\ UNCHANGED <<tpc, tmode, timage, tsize, tlevel, tres, tlevels>>
    /\ UNCHANGED notTiles

\* every tile task of the level has finished: collect() returns the bytes of
\* the level.  encode_image_par called alone returns them;
\* encode_bc7_with_encoder extends res by them, returns res after a mipmap
\* of 1 x 1, and goes on with the next mipmap otherwise: width and height
\* halved, at least 1, the mipmap resized from the image.
CollectLevel ==
    /\ tpc = "tiles"
    /\ \A j \in 1..Len(tblocks) : tblocks[j] # <<>>
    /\ LET bytes == collect(tblocks, tfinished)
           width == Max(tsize[1] \div 2, 1)
           height == Max(tsize[2] \div 2, 1)
           mipmap == resize(timage, width, height)
       IN
        /\ tres' = tres \o bytes
        /\ tlevels' = Append(tlevels, [image |-> tlevel, bytes |-> bytes,
                                       finished |-> tfinished])
        /\ IF tmode = "level" \/ (tlevels # <<>> /\ tsize = <<1, 1>>)
           THEN /\ tpc' = "done"
                /\ UNCHANGED <<tsize, tlevel, tblocks, tfinished>>
           ELSE /\ tpc' = "tiles"
                /\ tsize' = <<width, height>>
                /\ tlevel' = mipmap
                /\ tblocks' = no_blocks(mipmap)
                /\ tfinished' = <<>>
    /\ UNCHANGED <<tmode, timage>>
    /\ UNCHANGED notTiles

\* decode_bc7(&encode_bc7(image), width, height): the bytes encode_bc7
\* returned for the image, decoded with the size of the image
DecodeEncoded ==
    /\ tpc = "done" /\ tmode = "bc7"
    /\ mpc = "idle"
    /\ mdata' = tres
    /\ msize' = <<timage.width, timage.height>>
    /\ mimage' = decode_bc7(tres, timage.width, timage.height)
    /\ mpc' = IF mimage'.status = "ok" THEN "done" ELSE "panic"
    /\ UNCHANGED tvars
    /\ UNCHANGED <<avars, bvars, dvars, svars, rvars, cvars, ivars>>

NextTiles ==
    \/ EncodeTile
    \/ CollectLevel
    \/ DecodeEncoded

SpecTiles == InitTiles /\ [][NextTiles]_vars

----------------------------------------------------------------------------
(* bc7/encode.rs: encode_bc7 as one function of the image                    *)

\* encode_image_par(&image, encoder): the blocks of the tiles in the order of
\* the iterator
encode_image_par(image) ==
    Concat([j \in 1..Len(tile_origins(image)) |->
               tile_task(image, tile_origins(image)[j])] \o <<>>)

\* the loop of encode_bc7_with_encoder, entered with the size of the level
\* before: the mipmap of half the size, at least 1 x 1, and the mipmaps
\* behind it until one of 1 x 1 has been encoded
RECURSIVE encode_mipmaps(_, _, _)
encode_mipmaps(image, width, height) ==
    LET w == Max(width \div 2, 1)
        h == Max(height \div 2, 1)
    IN  encode_image_par(resize(image, w, h))
            \o (IF <<w, h>> = <<1, 1>> THEN <<>>
                ELSE encode_mipmaps(image, w, h))

\* encode_bc7(image)
encode_bc7(image) ==
    encode_image_par(image) \o encode_mipmaps(image, image.width, image.height)

----------------------------------------------------------------------------
(* image::load_from_memory_with_format(&data, ImageFormat::Png) followed by  *)
(* into_rgba8(), of the image library.  The decoder here reads the files a   *)
(* PNG writer makes with 8 bits a sample, colour type RGB or RGBA, no        *)
(* interlacing and stored deflate blocks; it checks the signature, the       *)
(* chunk lengths and CRCs, the header fields and the zlib header, and takes  *)
(* the five filter types.  The Adler-32 of the stream is not looked at.      *)

PngSignature == <<137, 80, 78, 71, 13, 10, 26, 10>>
PngIHDR == <<73, 72, 68, 82>>
PngIDAT == <<73, 68, 65, 84>>
PngIEND == <<73, 69, 78, 68>>

PngError == [ok |-> FALSE]

\* the big-endian word at byte offset pos (0-based), -1 for a word of 2^31
\* or more, which no length and no size of a PNG file is
read_u32_be(b, pos) ==
    IF b[pos + 1] >= 128 THEN 0 - 1
    ELSE 16777216 * b[pos + 1] + 65536 * b[pos + 2] + 256 * b[pos + 3]
             + b[pos + 4]

BitXor(a, b) == [i \in 1..Len(a) |-> (a[i] + b[i]) % 2] \o <<>>

\* the CRC-32 of the PNG format, on words of 32 bits: the polynomial
\* 0xEDB88320, the register and the result complemented
CrcPolynomial == from_le_bytes(<<32, 131, 184, 237>>)

RECURSIVE crc_shift(_, _)
crc_shift(c, k) ==
    IF k = 0 THEN c
    ELSE crc_shift(IF c[1] = 1 THEN BitXor(Shr(c, 1), CrcPolynomial)
                   ELSE Shr(c, 1),
                   k - 1)

crc_table == [n \in 0..255 |-> crc_shift(BitsOf(n, 8) \o Zeros(24), 8)]

\* the register c of 32 bits after the bytes from bytes[i] on
RECURSIVE crc_update(_, _, _)
crc_update(c, bytes, i) ==
    IF i > Len(bytes) \/ Len(c) # 32 THEN c
    ELSE crc_update(
             BitXor(crc_table[NatOf(BitXor(SubSeq(c, 1, 8),
                                           BitsOf(bytes[i], 8)))],
                    Shr(c, 8)),
             bytes, i + 1)

crc32(bytes) == BitXor(crc_update(Ones(32), bytes, 1), Ones(32))

\* the chunks from byte offset pos up to IEND: length, type, data, CRC of
\* type and data
RECURSIVE png_chunks(_, _, _)
png_chunks(b, pos, acc) ==
    IF pos + 12 > Len(b) THEN PngError
    ELSE LET length == read_u32_be(b, pos) IN
         IF length < 0 \/ pos + 12 + length > Len(b) THEN PngError
         ELSE LET type == SubSeq(b, pos + 5, pos + 8)
                  data == SubSeq(b, pos + 9, pos + 8 + length)
                  crc == <<b[pos + 12 + length], b[pos + 11 + length],
                           b[pos + 10 + length], b[pos + 9 + length]>>
              IN  IF from_le_bytes(crc) # crc32(type \o data) THEN PngError
                  ELSE IF type = PngIEND THEN [ok |-> TRUE, chunks |-> acc]
                  ELSE png_chunks(b, pos + 12 + length,
                                  Append(acc, [type |-> type, data |-> data]))

\* the deflate blocks from byte offset pos: stored blocks, each a header
\* byte, LEN, its complement NLEN and LEN bytes, up to the block marked final
RECURSIVE inflate_stored(_, _, _)
inflate_stored(z, pos, acc) ==
    IF pos + 5 > Len(z) THEN PngError
    ELSE LET header == z[pos + 1]
             len == z[pos + 2] + 256 * z[pos + 3]
             nlen == z[pos + 4] + 256 * z[pos + 5]
         IN  IF (header \div 2) % 4 # 0 \/ len + nlen # 65535
                    \/ pos + 5 + len > Len(z)
             THEN PngError
             ELSE IF header % 2 = 1
             THEN [ok |-> TRUE,
                   data |-> acc \o SubSeq(z, pos + 6, pos + 5 + len)]
             ELSE inflate_stored(z, pos + 5 + len,
                                 acc \o SubSeq(z, pos + 6, pos + 5 + len))

\* the zlib stream: CMF and FLG (deflate, a window of at most 32K, the check
\* bits, no preset dictionary), then the deflate blocks
zlib_decompress(z) ==
    IF Len(z) < 2 THEN PngError
    ELSE IF z[1] % 16 # 8 \/ z[1] \div 16 > 7
                \/ (256 * z[1] + z[2]) % 31 # 0 \/ (z[2] \div 32) % 2 = 1
    THEN PngError
    ELSE inflate_stored(z, 2, <<>>)

Abs(v) == IF v < 0 THEN 0 - v ELSE v

paeth(a, b, c) ==
    LET da == Abs(b - c)
        db == Abs(a - c)
        dc == Abs(a + b - 2 * c)
    IN  IF da <= db /\ da <= dc THEN a ELSE IF db <= dc THEN b ELSE c

\* one scanline without its filter: None, Sub, Up, Average, Paeth
RECURSIVE unfilter_row(_, _, _, _, _)
unfilter_row(filter, line, prev, bpp, acc) ==
    IF Len(acc) = Len(line) THEN acc
    ELSE LET i == Len(acc) + 1
             a == IF i > bpp THEN acc[i - bpp] ELSE 0
             b == prev[i]
             c == IF i > bpp THEN prev[i - bpp] ELSE 0
             pred == CASE filter = 0 -> 0
                       [] filter = 1 -> a
                       [] filter = 2 -> b
                       [] filter = 3 -> (a + b) \div 2
                       [] filter = 4 -> paeth(a, b, c)
         IN  unfilter_row(filter, line, prev, bpp,
                          Append(acc, (line[i] + pred) % 256))

\* the scanlines of the image data from row y (0-based) on
RECURSIVE unfilter(_, _, _, _, _, _)
unfilter(raw, stride, bpp, rows, y, prev) ==
    IF y = rows THEN [ok |-> TRUE, data |-> <<>>]
    ELSE LET at == y * (stride + 1)
             filter == raw[at + 1]
         IN  IF filter > 4 THEN PngError
             ELSE LET row == unfilter_row(filter,
                                          SubSeq(raw, at + 2, at + 1 + stride),
                                          prev, bpp, <<>>)
                      rest == unfilter(raw, stride, bpp, rows, y + 1, row)
                  IN  IF ~rest.ok THEN PngError
                      ELSE [ok |-> TRUE, data |-> row \o rest.data]

\* into_rgba8: the samples of a pixel, with alpha 255 for an RGB image
into_rgba8(width, height, bpp, samples) ==
    [width |-> width, height |-> height,
     pixels |-> [i \in 1..(width * height) |->
        <<samples[bpp * (i - 1) + 1], samples[bpp * (i - 1) + 2],
          samples[bpp * (i - 1) + 3],
          IF bpp = 4 THEN samples[bpp * (i - 1) + 4] ELSE 255>>] \o <<>>]

load_png_image(ihdr, idat) ==
    LET width == read_u32_be(ihdr, 0)
        height == read_u32_be(ihdr, 4)
        bpp == IF ihdr[10] = 6 THEN 4 ELSE 3
    IN  IF width <= 0 \/ height <= 0 \/ ihdr[9] # 8 \/ ihdr[10] \notin {2, 6}
               \/ ihdr[11] # 0 \/ ihdr[12] # 0 \/ ihdr[13] # 0
        THEN PngError
        ELSE LET raw == zlib_decompress(idat) IN
             IF ~raw.ok THEN PngError
             ELSE IF Len(raw.data) < height * (width * bpp + 1) THEN PngError
             ELSE LET samples == unfilter(raw.data, width * bpp, bpp, height,
                                          0, Zeros(width * bpp))
                  IN  IF ~samples.ok THEN PngError
                      ELSE [ok |-> TRUE,
                            image |-> into_rgba8(width, height, bpp,
                                                 samples.data)]

\* load_from_memory_with_format(&data, ImageFormat::Png) and into_rgba8()
load_from_memory_with_format(data) ==
    IF Len(data) < 8 THEN PngError
    ELSE IF SubSeq(data, 1, 8) # PngSignature THEN PngError
    ELSE LET read == png_chunks(data, 8, <<>>) IN
         IF ~read.ok THEN PngError
         ELSE IF read.chunks = <<>> THEN PngError
         ELSE IF read.chunks[1].type # PngIHDR \/ Len(read.chunks[1].data) # 13
         THEN PngError
         ELSE load_png_image(
                  read.chunks[1].data,
                  Concat([k \in 1..Len(read.chunks) |->
                             IF read.chunks[k].type = PngIDAT
                             THEN read.chunks[k].data ELSE <<>>] \o <<>>))

\* a 1 x 1 RGBA image of the colour (200, 100, 50, 255), filter None
Png1x1 ==
    <<137, 80, 78, 71, 13, 10, 26, 10, 0, 0, 0, 13, 73, 72, 68, 82, 0, 0, 0,
      1, 0, 0, 0, 1, 8, 6, 0, 0, 0, 31, 21, 196, 137, 0, 0, 0, 16, 73, 68,
      65, 84, 120, 1, 1, 5, 0, 250, 255, 0, 200, 100, 50, 255, 5, 180, 2, 94,
      11, 180, 138, 148, 0, 0, 0, 0, 73, 69, 78, 68, 174, 66, 96, 130>>

\* a 2 x 2 RGB image of the colour (7, 8, 9), filters Sub and Up, with a
\* tEXt chunk in front of the image data
Png2x2 ==
    <<137, 80, 78, 71, 13, 10, 26, 10, 0, 0, 0, 13, 73, 72, 68, 82, 0, 0, 0,
      2, 0, 0, 0, 2, 8, 2, 0, 0, 0, 253, 212, 154, 115, 0, 0, 0, 3, 116, 69,
      88, 116, 107, 0, 118, 203, 4, 243, 144, 0, 0, 0, 25, 73, 68, 65, 84,
      120, 1, 1, 14, 0, 241, 255, 1, 7, 8, 9, 0, 0, 0, 2, 0, 0, 0, 0, 0, 0,
      1, 72, 0, 28, 221, 179, 15, 254, 0, 0, 0, 0, 73, 69, 78, 68, 174, 66,
      96, 130>>

\* a 2 x 2 RGBA image of the colour (7, 8, 9, 128), filters Average and Paeth
Png2x2a ==
    <<137, 80, 78, 71, 13, 10, 26, 10, 0, 0, 0, 13, 73, 72, 68, 82, 0, 0, 0,
      2, 0, 0, 0, 2, 8, 6, 0, 0, 0, 114, 182, 13, 36, 0, 0, 0, 29, 73, 68,
      65, 84, 120, 1, 1, 18, 0, 237, 255, 3, 7, 8, 9, 128, 4, 4, 5, 64, 4,
      0, 0, 0, 0, 0, 0, 0, 0, 12, 5, 0, 237, 219, 95, 227, 192, 0, 0, 0, 0,
      73, 69, 78, 68, 174, 66, 96, 130>>

\* bytes that are no PNG file, and a PNG file with one byte of its image data
\* changed, which its CRC shows
PngFiles ==
    {Png1x1, Png2x2, Png2x2a, <<1, 2, 3>>,
     [Png1x1 EXCEPT ![50] = 201]}

----------------------------------------------------------------------------
(* main.rs: replace_one_entry.  The replacement file is its path, the bytes  *)
(* fs::read returned and the compressor of the command line.  The build is   *)
(* the one without cargo features: Compressor has the one variant Internal   *)
(* and cfg!(feature = "compressor") is false.                                *)

\* the index of the last x in q, 0 when there is none
last_index_of(q, x) ==
    IF \E i \in 1..Len(q) : q[i] = x
    THEN CHOOSE i \in 1..Len(q) :
             q[i] = x /\ \A j \in (i + 1)..Len(q) : q[j] # x
    ELSE 0

\* Path::file_name of the path of a file: the bytes behind the last '/'
file_name(path) == SubSeq(path, last_index_of(path, 47) + 1, Len(path))

\* Path::extension: the bytes behind the last '.' of the file name; None, <<>>
\* here, for a name without '.' and for a name whose only '.' is its first
\* byte; Some(e) is <<e>>
extension(path) ==
    LET name == file_name(path)
        dot == last_index_of(name, 46)
    IN  IF dot <= 1 \/ name = <<46, 46>> THEN <<>>
        ELSE <<SubSeq(name, dot + 1, Len(name))>>

\* OsStr::new("png") and OsStr::new("dds")
OsStrPng == <<112, 110, 103>>
OsStrDds == <<100, 100, 115>>

\* the outcome of replace_one_entry: the entry afterwards, or a panic
Replaced(entry) == [panic |-> FALSE, entry |-> entry]
Panicked(entry) == [panic |-> TRUE, entry |-> entry]

\* replace_one_entry that puts the whole file when the header parses
replace_one_entry_whole_file(entry, path, data, compressor) ==
    IF extension(path) = <<OsStrDds>> /\ parse_dds(data).ok
           /\ entry.file_type.tag # "Image"
    THEN Panicked(entry)
    ELSE IF extension(path) = <<OsStrDds>> /\ parse_dds(data).ok
    THEN Replaced([entry EXCEPT
             !.file_type.width = read_u32(parse_dds(data).header.width, 0),
             !.file_type.height = read_u32(parse_dds(data).header.height, 0),
             !.data = Raw(data)])
    ELSE Replaced([entry EXCEPT !.data = Raw(data)])

\* replace_one_entry(entry, file, compressor), path the path of the file
\* and data its bytes;
\* the compressor is None, <<>> here, or Some(Compressor::Internal), and
\* both make encode_bc7 the encoder
replace_one_entry(entry, path, data, compressor) ==
    IF extension(path) = <<OsStrPng>>
    THEN \* let encoding::FileType::Image { width, height, .. } = ...
         \* else { panic!(...) }
         IF entry.file_type.tag # "Image" THEN Panicked(entry)
         ELSE LET loaded == load_from_memory_with_format(data) IN
              \* .unwrap()
              IF ~loaded.ok THEN Panicked(entry)
              ELSE Replaced([entry EXCEPT
                       !.file_type.width = loaded.image.width,
                       !.file_type.height = loaded.image.height,
                       !.data = Raw(encode_bc7(loaded.image))])
    ELSE IF extension(path) = <<OsStrDds>>
    THEN LET parsed == parse_dds(data) IN
         IF parsed.ok
         THEN \* let encoding::FileType::Image { width, height, .. } = ...
              \* else { panic!(...) }
              IF entry.file_type.tag # "Image" THEN Panicked(entry)
              ELSE Replaced([entry EXCEPT
                       !.file_type.width = read_u32(parsed.header.width, 0),
                       !.file_type.height = read_u32(parsed.header.height, 0),
                       !.data = Raw(parsed.rest)])
         ELSE Replaced([entry EXCEPT !.data = Raw(data)])
    ELSE Replaced([entry EXCEPT !.data = Raw(data)])

\* the entries given to replace_one_entry
ReplacedEntries ==
    {[name |-> "a/b.png",
      file_type |-> Image(16, 16, << <<U32(1), U32(2)>>, <<U32(3), U32(4)>>,
                                     <<U32(16), U32(16)>> >>),
      data |-> Compressed(<<7, 7, 7>>, 5)],
     [name |-> "c.png",
      file_type |-> Image(8, 4, << <<U32(0), U32(0)>>, <<U32(0), U32(0)>>,
                                   <<U32(8), U32(4)>> >>),
      data |-> Raw(<<1, 2>>)],
     [name |-> "s.wav", file_type |-> Sound,
      data |-> Compressed(<<6, 6>>, 2)]}

\* the paths of the replacement files: f.dds, f.DDS, f.bin, f.png, f, .dds
\* and p.png/f
ReplacementPaths ==
    {<<102, 46, 100, 100, 115>>, <<102, 46, 68, 68, 83>>,
     <<102, 46, 98, 105, 110>>, <<102, 46, 112, 110, 103>>, <<102>>,
     <<46, 100, 100, 115>>, <<112, 46, 112, 110, 103, 47, 102>>}

\* Option<Compressor>: None and Some(Compressor::Internal)
NoCompressor == <<>>
Compressors == {NoCompressor, <<"Internal">>}

\* the files parse_dds is checked on, files as dump_entry writes them, and a
\* file with a mipmap count that is not the one of its size
ReplacementFiles ==
    DdsInputs
        \cup {DdsHeader_write(create_dds_header(U32(w), U32(h))) \o payload :
                  w \in {1, 300}, h \in {1, 2}, payload \in Payloads}
        \cup {WithWord(GoodFile, 28, U32(1))}

InitReplace ==
    /\ ImageIdle
    /\ InterpolateIdle
    /\ ArchiveIdle /\ BlockIdle /\ DdsIdle /\ BitsIdle /\ TilesIdle
    /\ CommandIdle
    /\ rpc = "call"
    /\ rentry \in ReplacedEntries
    /\ rbefore = rentry
    /\ rfile \in [path : ReplacementPaths,
                   data : ReplacementFiles \cup PngFiles,
                   compressor : Compressors]

\* replace_one_entry(entry, file, compressor)
ReplaceOneEntry ==
    /\ rpc = "call"
    /\ LET r == replace_one_entry(rentry, rfile.path, rfile.data,
                                  rfile.compressor) IN
        /\ rpc' = IF r.panic THEN "panic" ELSE "done"
        /\ rentry' = r.entry
    /\ UNCHANGED <<rbefore, rfile>>
    /\ UNCHANGED notReplace

NextReplace == ReplaceOneEntry

SpecReplace == InitReplace /\ [][NextReplace]_vars

----------------------------------------------------------------------------
(* main.rs: replace_entry, replace_entries, test_set_metadata.  A command   *)
(* opens the input archive, reads it, closes it, does its work on the       *)
(* archive in memory, creates the output file and writes the archive.  An   *)
(* unwrap() of an error and a panic! end the command where it is.           *)

MaxOps == 2

\* File::create(path): the file at the path is there and empty
create(disk, path) == [disk EXCEPT ![path] = <<>>]

\* find that takes the first entry when no entry has the name
find_or_first(entries, name) ==
    IF entries = <<>> THEN 0
    ELSE IF \E i \in 1..Len(entries) : entries[i].name = name
    THEN CHOOSE i \in 1..Len(entries) :
             /\ entries[i].name = name
             /\ \A j \in 1..(i - 1) : entries[j].name # name
    ELSE 1

\* archive.entries.iter_mut().find(|e| e.name == name), and
\* entries.iter().position(|e| e.name == entry_name) for the files of a
\* folder, whose names differ: the index of the first entry of that name, 0
\* for None
find(entries, name) ==
    IF \E i \in 1..Len(entries) : entries[i].name = name
    THEN CHOOSE i \in 1..Len(entries) :
             /\ entries[i].name = name
             /\ \A j \in 1..(i - 1) : entries[j].name # name
    ELSE 0

\* position that takes the first entry when no entry that is left has the
\* name
position_or_first(entries, taken, name) ==
    IF \E i \in 1..Len(entries) : i \notin taken /\ entries[i].name = name
    THEN CHOOSE i \in 1..Len(entries) :
             /\ i \notin taken /\ entries[i].name = name
             /\ \A j \in 1..(i - 1) : j \in taken \/ entries[j].name # name
    ELSE 1

\* entries.iter().position(|e| e.name == entry_name) on the entries that
\* entries.remove(pos) has left: the index in the archive of the first entry
\* of that name that no task has taken, 0 for None
position(entries, taken, name) ==
    IF \E i \in 1..Len(entries) : i \notin taken /\ entries[i].name = name
    THEN CHOOSE i \in 1..Len(entries) :
             /\ i \notin taken /\ entries[i].name = name
             /\ \A j \in 1..(i - 1) : j \in taken \/ entries[j].name # name
    ELSE 0

\* the body of the loop of test_set_metadata for an entry that was found;
\* None is <<>>, Some(v) is <<v>>, an offset is a u32 as its four
\* little-endian bytes.  unks[1].0 *= 2 and unks[1].1 *= 2 are u32
\* multiplications: the result carries the wrapped values, whether one of
\* the two overflowed, and the entry as it is when the first that overflows
\* panics
set_metadata(entry, instruction) ==
    IF entry.file_type.tag # "Image"
    THEN [overflow |-> FALSE, entry |-> entry, at_panic |-> entry]
    ELSE LET x0 == entry.file_type.unks[2][1]
             y0 == entry.file_type.unks[2][2]
             x1 == IF instruction.offset_x # <<>>
                   THEN instruction.offset_x[1] ELSE x0
             y1 == IF instruction.offset_y # <<>>
                   THEN instruction.offset_y[1] ELSE y0
             double == instruction.double_offset = <<TRUE>>
             x2 == checked(mul_digit(x1, 2, 0))
             y2 == checked(mul_digit(y1, 2, 0))
         IN  IF double
             THEN [overflow |-> x2.overflow \/ y2.overflow,
                   entry |-> [entry EXCEPT !.file_type.unks[2] = <<x2.v, y2.v>>],
                   at_panic |-> [entry EXCEPT !.file_type.unks[2] =
                                    IF x2.overflow THEN <<x1, y1>>
                                    ELSE <<x2.v, y1>>]]
             ELSE [overflow |-> FALSE,
                   entry |-> [entry EXCEPT !.file_type.unks[2] = <<x1, y1>>],
                   at_panic |-> entry]

\* the input archives of the commands
\* "t.dds" and "p.png": images; "s.dds": a sound
TmplD == Tmpl(0, <<116, 46, 100, 100, 115>>, <<16, 3>>, 1, 2, 2, NoUnks)
TmplP == Tmpl(0, <<112, 46, 112, 110, 103>>, <<16, 4>>, 1, 4, 4, NoUnks)
TmplW == Tmpl(1, <<115, 46, 100, 100, 115>>, <<16, 5>>, 1, 0, 0, NoUnks)

CommandArchives ==
    {MkArchive(ts, 0) :
        ts \in TemplateSeqs \cup {<<TmplA, TmplX>>, <<TmplD, TmplW, TmplP>>}}
        \cup {<<1, 0>>}

\* the names the commands look for: "a", "b", "zz"
CommandNames == {<<97>>, <<98>>, <<122, 122>>}

\* the replacement files of replace-entry: a well-formed dds file, a dds file
\* too short for a header, a file that is neither png nor dds, and a file
\* named png that is none.  What these leave in an entry is shorter than 13
\* bytes, as lz4_compress wants it.
CommandFiles ==
    {[path |-> <<102, 46, 100, 100, 115>>, data |-> GoodFile],
     [path |-> <<102, 46, 100, 100, 115>>, data |-> <<4, 5>>],
     [path |-> <<102, 46, 98, 105, 110>>, data |-> <<1, 2, 3>>],
     [path |-> <<102, 46, 112, 110, 103>>, data |-> <<1, 2, 3>>]}

\* replace-entry is given the name of the entry and the path of the file
Replacements == [entry_name : CommandNames, file : CommandFiles]

\* the names of the files of a folder, which are their paths below the
\* folder: "a", "b", "zz", "t.dds", "s.dds", "p.png"
FolderNames ==
    CommandNames \cup {<<116, 46, 100, 100, 115>>, <<115, 46, 100, 100, 115>>,
                       <<112, 46, 112, 110, 103>>}

\* the contents of the file of a name: a well-formed dds file for a name with
\* the extension dds, and short files that are neither dds nor png
FolderData(name) ==
    IF extension(name) = <<OsStrDds>> THEN {GoodFile, <<1, 2, 3>>}
    ELSE IF extension(name) = <<OsStrPng>> THEN {<<1, 2, 3>>}
    ELSE {<<1, 2, 3>>, <<4, 5>>}

\* a file of the folder of replace-entries: the name of its entry is its
\* path below the folder, and the file name of that path is the file name of
\* the path replace_one_entry is given
FolderFiles ==
    UNION {{[entry_name |-> n, file |-> [path |-> n, data |-> d]] :
                d \in FolderData(n)} : n \in FolderNames}

\* the instructions of test-set-metadata: offsets 7 and 9, and the offsets
\* 2^31 and 2^32 - 1, whose doubles are no u32
Instructions ==
    {[entry_name |-> n, offset_x |-> <<U32(7)>>, offset_y |-> <<>>,
      double_offset |-> <<>>] : n \in CommandNames}
        \cup {[entry_name |-> <<97>>, offset_x |-> <<>>, offset_y |-> <<U32(9)>>,
               double_offset |-> <<TRUE>>],
              [entry_name |-> <<97>>, offset_x |-> <<>>, offset_y |-> <<>>,
               double_offset |-> <<FALSE>>],
              [entry_name |-> <<97>>, offset_x |-> << <<0, 0, 0, 128>> >>,
               offset_y |-> <<>>, double_offset |-> <<TRUE>>],
              [entry_name |-> <<97>>, offset_x |-> <<>>,
               offset_y |-> << <<255, 255, 255, 255>> >>,
               double_offset |-> <<TRUE>>]}

RECURSIVE SeqsOfLen(_, _)
SeqsOfLen(S, n) ==
    IF n = 0 THEN {<<>>}
    ELSE {Append(q, x) : q \in SeqsOfLen(S, n - 1), x \in S}

\* the files of a folder, in the order of the walk: no two of one name
Folders ==
    {q \in UNION {SeqsOfLen(FolderFiles, n) : n \in 0..MaxOps} :
        \A i, j \in 1..Len(q) : q[i].entry_name = q[j].entry_name => i = j}

InitCommand ==
    /\ ImageIdle
    /\ InterpolateIdle
    /\ ArchiveIdle /\ BlockIdle /\ DdsAtRest /\ BitsIdle /\ TilesIdle
    /\ ReplaceIdle
    /\ build \in {"debug", "release"}
    /\ cpc = "start"
    /\ chandle = "none"
    /\ cfile \in CommandArchives
    /\ cdisk = [in |-> cfile, out |-> <<>>]
    /\ coutput \in {"in", "out"}
    /\ ctoc = <<>>
    /\ carchive = <<>>
    /\ \/ ccmd = "replace-entry" /\ cops \in SeqsOfLen(Replacements, 1)
       \/ ccmd = "replace-entries" /\ cops \in Folders
       \/ ccmd = "test-set-metadata"
              /\ cops \in UNION {SeqsOfLen(Instructions, n) : n \in 0..MaxOps}
    /\ cdone = 0
    /\ ctasks = {}

\* File::open(assets_input_path).unwrap()
OpenInput ==
    /\ cpc = "start"
    /\ cpc' = "open"
    /\ chandle' = "open"
    /\ UNCHANGED <<ccmd, cfile, cdisk, coutput, ctoc, carchive, cops, cdone,
                   ctasks>>
    /\ UNCHANGED notCommand

\* read_toc(&mut assets_input).unwrap()
CommandReadToc ==
    /\ cpc = "open"
    /\ LET r == read_toc(cdisk["in"]) IN
        /\ cpc' = IF r.ok THEN "toc" ELSE "panic"
        /\ ctoc' = r.entries
        /\ chandle' = IF r.ok THEN chandle ELSE "closed"
    /\ UNCHANGED <<ccmd, cfile, cdisk, coutput, carchive, cops, cdone, ctasks>>
    /\ UNCHANGED notCommand

\* Archive::from_file_and_toc(&assets_input, toc).unwrap()
CommandFromFileAndToc ==
    /\ cpc = "toc"
    /\ LET r == from_file_and_toc(cdisk["in"], [entries |-> ctoc]) IN
        /\ cpc' = IF r.status = "ok" THEN "loaded" ELSE "panic"
        /\ carchive' = r.entries
        /\ chandle' = IF r.status = "ok" THEN chandle ELSE "closed"
    /\ UNCHANGED <<ccmd, cfile, cdisk, coutput, ctoc, cops, cdone, ctasks>>
    /\ UNCHANGED notCommand

\* drop(assets_input)
DropInput ==
    /\ cpc = "loaded"
    /\ cpc' = "work"
    /\ chandle' = "closed"
    /\ UNCHANGED <<ccmd, cfile, cdisk, coutput, ctoc, carchive, cops, cdone,
                   ctasks>>
    /\ UNCHANGED notCommand

\* replace_entry: find(...).unwrap(), then replace_one_entry
ReplaceEntry ==
    /\ cpc = "work" /\ ccmd = "replace-entry"
    /\ cdone < Len(cops)
    /\ LET op == cops[cdone + 1]
           i == find(carchive, op.entry_name)
       IN  IF i = 0
           THEN cpc' = "panic" /\ UNCHANGED <<carchive, cdone>>
           ELSE LET r == replace_one_entry(carchive[i], op.file.path,
                                           op.file.data, NoCompressor)
                IN  /\ cpc' = IF r.panic THEN "panic" ELSE "work"
                    /\ carchive' = [carchive EXCEPT ![i] = r.entry]
                    /\ cdone' = cdone + 1
    /\ UNCHANGED <<ccmd, chandle, cfile, cdisk, coutput, ctoc, cops, ctasks>>
    /\ UNCHANGED notCommand

\* replace_entries_in_dir_rec, for the next file of the folder:
\* position(...).unwrap() and tasks.push
ScheduleTask ==
    /\ cpc = "work" /\ ccmd = "replace-entries"
    /\ cdone < Len(cops)
    /\ LET i == position(carchive, {task.entry : task \in ctasks},
                         cops[cdone + 1].entry_name) IN
        IF i = 0
        THEN cpc' = "panic" /\ UNCHANGED <<cdone, ctasks>>
        ELSE /\ ctasks' = ctasks \cup {[entry |-> i, op |-> cdone + 1]}
             /\ cdone' = cdone + 1
             /\ cpc' = "work"
    /\ UNCHANGED <<ccmd, chandle, cfile, cdisk, coutput, ctoc, carchive, cops>>
    /\ UNCHANGED notCommand

\* one task of tasks.into_par_iter().for_each: replace_one_entry; the tasks
\* run in any order
RunTask ==
    /\ cpc = "work" /\ ccmd = "replace-entries"
    /\ cdone = Len(cops)
    /\ \E task \in ctasks :
        LET replacement == cops[task.op].file
            r == replace_one_entry(carchive[task.entry], replacement.path,
                                   replacement.data, NoCompressor)
        IN  /\ cpc' = IF r.panic THEN "panic" ELSE "work"
            /\ carchive' = [carchive EXCEPT ![task.entry] = r.entry]
            /\ ctasks' = ctasks \ {task}
    /\ UNCHANGED <<ccmd, chandle, cfile, cdisk, coutput, ctoc, cops, cdone>>
    /\ UNCHANGED notCommand

\* one round of the loop of test_set_metadata: an entry that is not found is
\* reported and the loop goes on; a doubling that overflows panics in a
\* build that checks it, and the command ends there
SetMetadata ==
    /\ cpc = "work" /\ ccmd = "test-set-metadata"
    /\ cdone < Len(cops)
    /\ LET instruction == cops[cdone + 1]
           i == find(carchive, instruction.entry_name)
       IN  IF i = 0
           THEN /\ cpc' = cpc
                /\ carchive' = carchive
                /\ cdone' = cdone + 1
           ELSE LET r == set_metadata(carchive[i], instruction) IN
                IF r.overflow /\ build = "debug"
                THEN /\ cpc' = "panic"
                     /\ carchive' = [carchive EXCEPT ![i] = r.at_panic]
                     /\ cdone' = cdone
                ELSE /\ cpc' = cpc
                     /\ carchive' = [carchive EXCEPT ![i] = r.entry]
                     /\ cdone' = cdone + 1
    /\ UNCHANGED <<ccmd, chandle, cfile, cdisk, coutput, ctoc, cops, ctasks>>
    /\ UNCHANGED notCommand

\* File::create(output).unwrap()
CreateOutput ==
    /\ cpc = "work"
    /\ cdone = Len(cops)
    /\ ctasks = {}
    /\ cdisk' = create(cdisk, coutput)
    /\ cpc' = "created"
    /\ UNCHANGED <<ccmd, chandle, cfile, coutput, ctoc, carchive, cops, cdone,
                   ctasks>>
    /\ UNCHANGED notCommand

\* archive.write_to_file(assets_output).unwrap()
CommandWriteToFile ==
    /\ cpc = "created"
    /\ cdisk' = [cdisk EXCEPT ![coutput] = write_to_file(carchive)]
    /\ cpc' = "written"
    /\ UNCHANGED <<ccmd, chandle, cfile, coutput, ctoc, carchive, cops, cdone,
                   ctasks>>
    /\ UNCHANGED notCommand

NextCommand ==
    \/ OpenInput
    \/ CommandReadToc
    \/ CommandFromFileAndToc
    \/ DropInput
    \/ ReplaceEntry
    \/ ScheduleTask
    \/ RunTask
    \/ SetMetadata
    \/ CreateOutput
    \/ CommandWriteToFile

SpecCommand == InitCommand /\ [][NextCommand]_vars

----------------------------------------------------------------------------
(* take_bits on a state of any contents *)

MaxTakes == 2

\* the widths of a take_bits call on a T of W bits: in and out of 1..W
TakeBitsWidths(W) == {0, 1, 3, W - 1, W, W + 1}

InitTake ==
    /\ ImageIdle
    /\ InterpolateIdle
    /\ ArchiveIdle /\ BlockIdle /\ DdsAtRest /\ TilesIdle /\ ReplaceIdle
    /\ CommandIdle
    /\ build \in {"debug", "release"}
    /\ spc = "take"
    /\ sprog = <<>>
    /\ sdone = <<>>
    /\ staken = <<>>
    /\ \E W \in BitWidths :
        /\ sdest \in {Ones(W), Alt(W, 0), Alt(W, 1)}
        /\ swidths \in UNION {SeqsOfLen(TakeBitsWidths(W), n) : n \in 1..MaxTakes}

NextTake == TakeBits

SpecTake == InitTake /\ [][NextTake]_vars

----------------------------------------------------------------------------
(* bc7.rs: interpolate, called on its own.  a and b run over the u8 values,  *)
(* index over the indices of the weight table of BITS.                      *)

InterpolateBits == {2, 3, 4}
EndpointValues == 0..255

InitInterpolate ==
    /\ ImageIdle
    /\ ArchiveIdle /\ BlockIdle /\ DdsIdle /\ BitsIdle /\ TilesIdle
    /\ ReplaceIdle /\ CommandIdle
    /\ ipc = "call"
    /\ \E BITS \in InterpolateBits, a \in EndpointValues, b \in EndpointValues :
           \E index \in 0..(Pow2(BITS) - 1) :
               iargs = [BITS |-> BITS, a |-> a, b |-> b, index |-> index]
    /\ iret = <<>>

\* interpolate::<BITS>(a, b, index): an overflow of the u16 arithmetic
\* panics in a build that checks it and wraps in one that does not, so a
\* call that overflows has both outcomes
Interpolate ==
    /\ ipc = "call"
    /\ LET r == interpolate_checked(iargs.BITS, iargs.a, iargs.b, iargs.index)
       IN  \/ r.overflow /\ ipc' = "panic" /\ iret' = iret
           \/ ipc' = "done" /\ iret' = r.ret
    /\ UNCHANGED iargs
    /\ UNCHANGED notInterpolate

NextInterpolate == Interpolate

SpecInterpolate == InitInterpolate /\ [][NextInterpolate]_vars

----------------------------------------------------------------------------
(* decode_bc7 called on its own, on data made of a few blocks.               *)

\* a mode-6 block whose 16 texels have the indices 0 to 15, so that no two
\* texels of it decode alike
GradientBlock ==
    Block6_encode([r |-> <<0, 127>>, g |-> <<0, 0>>, b |-> <<0, 127>>,
                   a |-> <<127, 127>>, p |-> <<1, 1>>,
                   index_data |->
                       [k \in 1..64 |->
                           IF k <= 3 \/ k = 64 THEN 0
                           ELSE BitsOf(k \div 4, 4)[(k % 4) + 1]]
                       \o <<>>])

\* the blocks the data is made of: two of one colour, one whose texels all
\* differ, one of mode 3
ImageBlocks ==
    {Block6_encode(Block6_magenta(127)), Block6_encode(Block6_magenta(31)),
     GradientBlock, OneBit(3)}

MaxImageSide == 5
MaxSpare == 1

\* the bytes behind the last whole block: none, or three
SpareBytes == {<<>>, <<17, 0, 255>>}

\* the data is up to MaxSpare blocks more than the image has tiles, with or
\* without bytes behind the last whole block
InitImage ==
    /\ ArchiveIdle /\ BlockIdle /\ DdsIdle /\ BitsIdle /\ TilesIdle
    /\ ReplaceIdle /\ CommandIdle /\ InterpolateIdle
    /\ mpc = "call"
    /\ \E width \in 1..MaxImageSide, height \in 1..MaxImageSide :
           /\ msize = <<width, height>>
           /\ \E n \in 0..(((width + 3) \div 4) * ((height + 3) \div 4)
                              + MaxSpare) :
                  \E q \in SeqsOfLen(ImageBlocks, n), rest \in SpareBytes :
                      mdata = Concat([k \in 1..n |-> to_le_bytes(q[k])] \o <<>>)
                                  \o rest
    /\ mimage = <<>>

\* decode_bc7(data, width, height)
DecodeBc7 ==
    /\ mpc = "call"
    /\ mimage' = decode_bc7(mdata, msize[1], msize[2])
    /\ mpc' = IF mimage'.status = "ok" THEN "done" ELSE "panic"
    /\ UNCHANGED <<mdata, msize>>
    /\ UNCHANGED notImage

NextImage == DecodeBc7

SpecImage == InitImage /\ [][NextImage]_vars

----------------------------------------------------------------------------
(* Claims about the archive codec *)

RECURSIVE SumTo(_, _)
SumTo(f, n) == IF n = 0 THEN 0 ELSE f[n] + SumTo(f, n - 1)

\* the payload write_to_file is to write for an in-memory entry
ExpectedPayload(e) ==
    IF e.data.tag = "Raw" THEN lz4_compress(e.data.data) ELSE e.data.data

\* C1: for every well-formed archive, read_toc, then from_file_and_toc, then
\* write_to_file with no entry mutated in between produces an output whose
\* bytes equal the input bytes.
C1_RoundTripIdentity ==
    (pc \in {"written", "panic", "io_error"} /\ nmut = 0
         /\ file \in WellFormedFiles)
        => (pc = "written" /\ out = file)

\* C2: every file write_to_file writes has its first word equal to the offset
\* of the TOC, which is 4 plus the sum of the payload lengths; the first
\* payload starts at 4, each offset is the previous offset plus the previous
\* size, so payloads do not overlap and end at or before the TOC.
C2_WrittenLayout ==
    pc = "written" =>
        LET t == read_toc(out)
            n == Len(archive)
            start == read_u32(out, 0)
            e == t.entries
        IN  /\ t.ok
            /\ Len(e) = n
            /\ start = 4 + SumTo([i \in 1..n |-> e[i].size], n)
            /\ Len(out) = start + 4 + SumTo([i \in 1..n |-> 52 + Len(e[i].name)], n)
            /\ n >= 1 => e[1].offset = 4
            /\ \A i \in 2..n : e[i].offset = e[i - 1].offset + e[i - 1].size
            /\ \A i \in 1..n :
                /\ e[i].offset + e[i].size <= start
                /\ e[i].size = Len(ExpectedPayload(archive[i]))
                /\ Slice(out, e[i].offset, e[i].size) = ExpectedPayload(archive[i])
            /\ \A i \in 1..n : \A j \in 1..n :
                i < j => e[i].offset + e[i].size <= e[j].offset

C2_Witness ==
    /\ pc = "written"
    /\ nmut = 2
    /\ Len(archive) = 3
    /\ archive[1].data.tag = "Raw"
    /\ archive[2].data.tag = "Compressed"
    /\ archive[3].file_type.width = 16

\* C3: an entry whose data is Raw(bytes) at write time is written as
\* lz4_compress(bytes), with decompressed_size = len(bytes) and
\* compressed_size = len(lz4_compress(bytes)) in the TOC; the TOC offset and
\* the offsets of the later entries move by the change in compressed length
\* (A of size 10 and B of size 6, A replaced by 12 raw bytes:
\* start_of_toc = 4 + len(compress(12 bytes)) + 6, B at 4 + len(compress(12 bytes))).
C3_RawRecompressed ==
    pc = "written" =>
        LET t == read_toc(out)
            n == Len(archive)
            e == t.entries
            delta == [i \in 1..n |-> e[i].size - toc[i].size]
        IN  /\ t.ok
            /\ Len(e) = n
            /\ \A i \in 1..n :
                archive[i].data.tag = "Raw" =>
                    /\ e[i].size_decompressed = Len(archive[i].data.data)
                    /\ e[i].size = Len(lz4_compress(archive[i].data.data))
                    /\ Slice(out, e[i].offset, e[i].size)
                           = lz4_compress(archive[i].data.data)
            /\ \A i \in 1..n :
                (e[i].offset - 4) - (toc[i].offset - toc[1].offset)
                    = SumTo(delta, i - 1)
            /\ n >= 1 =>
                (read_u32(out, 0) - 4) - (read_u32(file, 0) - toc[1].offset)
                    = SumTo(delta, n)
            /\ (/\ file = MkArchive(<<TmplA, TmplB>>, 0)
                /\ archive[1].data = Raw(Raw12)
                /\ 2 \notin touched)
               => /\ read_u32(out, 0) = 4 + Len(lz4_compress(Raw12)) + 6
                  /\ e[2].offset = 4 + Len(lz4_compress(Raw12))

C3_Witness ==
    /\ pc = "written"
    /\ file = MkArchive(<<TmplA, TmplB>>, 0)
    /\ toc[1].size = 10 /\ toc[2].size = 6 /\ toc[2].offset = 14
    /\ archive[1].data = Raw(Raw12)
    /\ touched = {1}
    /\ read_u32(out, 0) = 23

\* C4: replacing the data or metadata of one entry and writing leaves every
\* other entry as read from the input: name, file type, Image width, height
\* and unk pairs, payload bytes and decompressed_size; the entries keep the
\* order of the input TOC, in the output TOC and in the payload area.
C4_OtherEntriesKept ==
    pc = "written" =>
        LET t == read_toc(out)
            e == t.entries
        IN  /\ t.ok
            /\ Len(e) = Len(toc)
            /\ \A j \in 1..Len(toc) : e[j].name = toc[j].name
            /\ \A j \in 2..Len(toc) : e[j - 1].offset + e[j - 1].size <= e[j].offset
            /\ \A j \in (1..Len(toc)) \ touched :
                /\ e[j].file_type = toc[j].file_type
                /\ e[j].size_decompressed = toc[j].size_decompressed
                /\ e[j].size = toc[j].size
                /\ Slice(out, e[j].offset, e[j].size)
                       = Slice(file, toc[j].offset, toc[j].size)
                /\ toc[j].file_type = "Image" =>
                    /\ e[j].width = toc[j].width
                    /\ e[j].height = toc[j].height
                    /\ e[j].unks = toc[j].unks

C4_Witness ==
    /\ pc = "written"
    /\ touched = {1}
    /\ Len(archive) = 2
    /\ archive[1].data.tag = "Raw"
    /\ toc[2].file_type = "Image"
    /\ toc[2].width = 8 /\ toc[2].height = 4
    /\ read_toc(out).entries[2].unks
           = << <<U32(1), U32(2)>>, <<U32(3), U32(5)>>, <<U32(8), U32(4)>> >>

----------------------------------------------------------------------------
(* Claims about the BC7 block codec *)

\* the value at hand was given to BlockN::encode (not a raw block)
FromValue == DOMAIN bval # {}

\* the layout table of the format: the fields of BlockN in the order they
\* are stored above the unary prefix, n elements of `width` bits each
Field(name, kind, width, n) ==
    [name |-> name, kind |-> kind, width |-> width, n |-> n]

Layout(m) ==
    CASE m = 0 -> <<Field("partition", "u8", 4, 1), Field("r", "arr", 4, 6),
                    Field("g", "arr", 4, 6), Field("b", "arr", 4, 6),
                    Field("p", "arr", 1, 6), Field("index_data", "u64", 45, 1)>>
      [] m = 1 -> <<Field("partition", "u8", 6, 1), Field("r", "arr", 6, 4),
                    Field("g", "arr", 6, 4), Field("b", "arr", 6, 4),
                    Field("p", "arr", 1, 2), Field("index_data", "u64", 46, 1)>>
      [] m = 2 -> <<Field("partition", "u8", 6, 1), Field("r", "arr", 5, 6),
                    Field("g", "arr", 5, 6), Field("b", "arr", 5, 6),
                    Field("index_data", "u64", 29, 1)>>
      [] m = 3 -> <<Field("partition", "u8", 6, 1), Field("r", "arr", 7, 4),
                    Field("g", "arr", 7, 4), Field("b", "arr", 7, 4),
                    Field("p", "arr", 1, 4), Field("index_data", "u64", 30, 1)>>
      [] m = 4 -> <<Field("rot", "rot", 2, 1), Field("idx_mode", "bool", 1, 1),
                    Field("r", "arr", 5, 2), Field("g", "arr", 5, 2),
                    Field("b", "arr", 5, 2), Field("a", "arr", 6, 2),
                    Field("index_data0", "u64", 31, 1),
                    Field("index_data1", "u64", 47, 1)>>
      [] m = 5 -> <<Field("rot", "rot", 2, 1), Field("r", "arr", 7, 2),
                    Field("g", "arr", 7, 2), Field("b", "arr", 7, 2),
                    Field("a", "arr", 8, 2), Field("colors", "u64", 31, 1),
                    Field("alpha", "u64", 31, 1)>>
      [] m = 6 -> <<Field("r", "arr", 7, 2), Field("g", "arr", 7, 2),
                    Field("b", "arr", 7, 2), Field("a", "arr", 7, 2),
                    Field("p", "arr", 1, 2), Field("index_data", "u64", 63, 1)>>
      [] m = 7 -> <<Field("partition", "u8", 6, 1), Field("r", "arr", 5, 4),
                    Field("g", "arr", 5, 4), Field("b", "arr", 5, 4),
                    Field("a", "arr", 5, 4), Field("p", "arr", 1, 4),
                    Field("index_data", "u64", 30, 1)>>

\* the number of bits of the first k fields of the layout of mode m
RECURSIVE LayoutBits(_, _)
LayoutBits(m, k) ==
    IF k = 0 THEN 0
    ELSE LayoutBits(m, k - 1) + Layout(m)[k].width * Layout(m)[k].n

\* the position in the block of the lowest bit of field k of mode m
FieldOffset(m, k) == m + 1 + LayoutBits(m, k - 1)

\* the value of field k of mode m read from block b at the position the
\* layout gives it, least-significant bit first
FieldAt(m, k, b) ==
    LET f == Layout(m)[k]
        off == FieldOffset(m, k)
        bits(i) == SubSeq(b, off + (i - 1) * f.width + 1, off + i * f.width)
    IN  CASE f.kind = "u8" -> NatOf(bits(1))
          [] f.kind = "arr" -> [i \in 1..f.n |-> NatOf(bits(i))]
          [] f.kind = "u64" -> bits(1) \o Zeros(64 - f.width)
          [] f.kind = "rot" -> from_u2(NatOf(bits(1)))
          [] f.kind = "bool" -> bits(1) = <<1>>

\* the bits a field value holds, in the order of the layout, each element
\* taken at its width w in the layout
FieldBits(f, val) ==
    CASE f.kind = "u8" -> BitsOf(val, f.width)
      [] f.kind = "arr" -> Concat([i \in 1..f.n |-> BitsOf(val[i], f.width)])
      [] f.kind = "u64" -> SubSeq(val, 1, f.width)
      [] f.kind = "rot" ->
           BitsOf(CASE val = "No" -> 0 [] val = "R" -> 1
                    [] val = "G" -> 2 [] val = "B" -> 3, f.width)
      [] f.kind = "bool" -> <<IF val THEN 1 ELSE 0>>

\* the bits a field value holds above its width in the layout
HighBits(f, val) ==
    CASE f.kind = "u8" -> SubSeq(BitsOf(val, 8), f.width + 1, 8)
      [] f.kind = "arr" ->
           Concat([i \in 1..f.n |-> SubSeq(BitsOf(val[i], 8), f.width + 1, 8)])
      [] f.kind = "u64" -> SubSeq(val, f.width + 1, 64)
      [] OTHER -> <<>>

PopCount(bits) == Cardinality({i \in 1..Len(bits) : bits[i] = 1})

\* the number of bits set in all the fields of a decoded BlockN
RECURSIVE SetBits(_, _, _)
SetBits(m, v, k) ==
    IF k = 0 THEN 0
    ELSE SetBits(m, v, k - 1)
             + PopCount(FieldBits(Layout(m)[k], v[Layout(m)[k].name]))
             + PopCount(HighBits(Layout(m)[k], v[Layout(m)[k].name]))

\* the largest value of field f
FieldMax(f) ==
    CASE f.kind = "u8" -> Pow2(f.width) - 1
      [] f.kind = "arr" -> [i \in 1..f.n |-> Pow2(f.width) - 1]
      [] f.kind = "u64" -> Ones(f.width) \o Zeros(64 - f.width)
      [] f.kind = "rot" -> "B"
      [] f.kind = "bool" -> TRUE

\* every field of v fits the width the layout of mode m gives it
Fits(m, v) ==
    \A k \in 1..Len(Layout(m)) :
        LET f == Layout(m)[k] IN
        CASE f.kind = "u8" -> v[f.name] < Pow2(f.width)
          [] f.kind = "arr" -> \A i \in 1..f.n : v[f.name][i] < Pow2(f.width)
          [] f.kind = "u64" -> \A i \in (f.width + 1)..64 : v[f.name][i] = 0
          [] OTHER -> TRUE

\* the bit positions of the fields of Block4:
\* tests::check_block4_content_by_bit
Block4Bits ==
    <<[name |-> "rot", lo |-> 5, hi |-> 6],
      [name |-> "idx_mode", lo |-> 7, hi |-> 7],
      [name |-> "r", lo |-> 8, hi |-> 17], [name |-> "g", lo |-> 18, hi |-> 27],
      [name |-> "b", lo |-> 28, hi |-> 37], [name |-> "a", lo |-> 38, hi |-> 49],
      [name |-> "index_data0", lo |-> 50, hi |-> 80],
      [name |-> "index_data1", lo |-> 81, hi |-> 127]>>

\* C7: for each mode m in 0..7 and every BlockM value whose fields fit the
\* bit widths of the layout of the mode, BlockM::decode(BlockM::encode(v))
\* returns the field values of v.
C7_DecodeEncodeIdentity ==
    (bpc \in {"fields", "decoded"} /\ FromValue /\ Fits(bmode, bval))
        => fields = bval

C7_Witness ==
    /\ bpc = "fields" /\ FromValue /\ bmode = 4 /\ Fits(bmode, bval)
    /\ bval.rot = "G" /\ bval.idx_mode /\ bval.r[1] # bval.r[2]
    /\ bval.index_data0 # bval.index_data1
    /\ fields = bval

\* C8: for every mode m in 0..7, BlockM::decode skips the m+1 prefix bits and
\* reads the fields in the order and with the widths of the layout table,
\* least-significant bit first, the prefix and the fields covering the 128
\* bits; a block with one bit set above the prefix decodes to fields with one
\* bit set in all, at the place the layout gives it (for Block4: rot 5-6,
\* idx_mode 7, r 8-17, g 18-27, b 28-37, a 38-49, index_data0 50-80,
\* index_data1 81-127); a block with one bit set in the prefix decodes to
\* fields with no bit set; the all-ones block decodes to every field at its
\* maximum.
C8_DecodeFollowsLayout ==
    bpc \in {"fields", "decoded"} =>
        LET n == Len(Layout(bmode)) IN
        /\ DOMAIN fields = {Layout(bmode)[k].name : k \in 1..n}
        /\ bmode + 1 + LayoutBits(bmode, n) = 128
        /\ \A k \in 1..n :
               fields[Layout(bmode)[k].name] = FieldAt(bmode, k, blk)
        /\ \A i \in 0..127 :
               blk = OneBit(i) =>
                   SetBits(bmode, fields, n) = (IF i <= bmode THEN 0 ELSE 1)
        /\ \A i \in 0..127, k \in 1..Len(Block4Bits) :
               (bmode = 4 /\ blk = OneBit(i)) =>
                   LET e == Block4Bits[k]
                       got == FieldBits(Layout(4)[k], fields[e.name])
                   IN  /\ Layout(4)[k].name = e.name
                       /\ e.hi - e.lo + 1 = Len(got)
                       /\ \A j \in 1..Len(got) :
                              got[j] = (IF j = i - e.lo + 1 THEN 1 ELSE 0)
        /\ blk = Ones(128) =>
               \A k \in 1..n :
                   fields[Layout(bmode)[k].name] = FieldMax(Layout(bmode)[k])

C8_Witness ==
    /\ bpc = "fields" /\ ~FromValue /\ bmode = 4 /\ blk = OneBit(50)
    /\ fields.index_data0 = <<1>> \o Zeros(63)
    /\ fields.rot = "No" /\ fields.a = <<0, 0>>

\* the mode of the block at hand: the number of zero bits below its lowest
\* set bit
BlockMode == trailing_zeros(blk)

\* C5: decode_bc7_block applied to any block whose mode is m yields a 4x4
\* tile in which every texel has alpha 255 when m is 0, 1, 2, 3 or 7, and
\* alpha in 0..255 when m is 4, 5 or 6.
C5_AlphaByMode ==
    (bpc = "decoded" /\ BlockMode \in 0..7) =>
        /\ tile.status = "ok"
        /\ Len(tile.pixels) = 16
        /\ BlockMode \in {0, 1, 2, 3, 7} =>
               \A i \in 1..16 : tile.pixels[i][4] = 255
        /\ BlockMode \in {4, 5, 6} =>
               \A i \in 1..16 : tile.pixels[i][4] \in 0..255

(* The decoding of modes 0 to 3 as the format defines it: the anchor tables  *)
(* of the 3-subset partitions, the endpoint expansion, and the index of a    *)
(* texel read with one bit fewer at the anchor texel of each subset.         *)

\* ANCHOR_INDEX_3_2[p]: the anchor texel of subset 1 in 3-subset partition p
ANCHOR_INDEX_3_2 ==
    <<  3,  3, 15, 15,  8,  3, 15, 15,  8,  8,  6,  6,  6,  5,  3,  3,
        3,  3,  8, 15,  3,  3,  6, 10,  5,  8,  8,  6,  8,  5, 15, 15,
        8, 15,  3,  5,  6, 10,  8, 15, 15,  3, 15,  5, 15, 15, 15, 15,
        3, 15,  5,  5,  5,  8,  5, 10,  5, 10,  8, 13, 15, 12,  3,  3 >>

\* ANCHOR_INDEX_3_3[p]: the anchor texel of subset 2 in 3-subset partition p
ANCHOR_INDEX_3_3 ==
    << 15,  8,  8,  3, 15, 15,  3,  8, 15, 15, 15, 15, 15, 15, 15,  8,
       15,  8, 15,  3, 15,  8, 15,  8,  3, 15,  6, 10, 15, 15, 10,  8,
       15,  3, 15, 10, 10,  8,  9, 10,  6, 15,  8, 15,  3,  6,  6,  8,
       15,  3, 15, 15, 15, 15, 15, 15, 15, 15, 15, 15,  3, 15, 15,  8 >>

\* a k-bit endpoint channel moved to the high bits of a byte, its high bits
\* replicated into the low bits
Expand(x, k) == or8(shl8(x, 8 - k), shr8(shl8(x, 8 - k), k))

\* the number of subsets of mode m (0..3), the width of its indices, and
\* the subset of texel i (0..15) in partition p
Subsets(m) == IF m \in {0, 2} THEN 3 ELSE 2
IndexWidth(m) == IF m \in {0, 1} THEN 3 ELSE 2
SubsetOf(m, p, i) ==
    IF Subsets(m) = 3 THEN PARTITIONS_3[p + 1][i + 1]
    ELSE PARTITIONS_2[p + 1][i + 1]

\* texel i (0..15) is the anchor texel of its subset in partition p
IsAnchor(m, p, i) ==
    \/ i = 0
    \/ Subsets(m) = 2 /\ i = ANCHOR_INDEX_2[p + 1]
    \/ Subsets(m) = 3 /\ i \in {ANCHOR_INDEX_3_2[p + 1], ANCHOR_INDEX_3_3[p + 1]}

\* expanded endpoint e (0 or 1) of subset sub of the BlockM value v
EndpointRgb(m, v, sub, e) ==
    LET index == 2 * sub + e + 1
        x(c) == CASE m = 0 -> Expand(or8(shl8(c[index], 1), v.p[index]), 5)
                  [] m = 1 -> Expand(or8(shl8(c[index], 1), v.p[sub + 1]), 7)
                  [] m = 2 -> Expand(c[index], 5)
                  [] m = 3 -> Expand(or8(shl8(c[index], 1), v.p[index]), 8)
    IN  <<x(v.r), x(v.g), x(v.b)>>

\* the RGB of the 16 texels of the mode-m block b
ExpectedRgb(m, b) ==
    LET v == BlockN_decode(m, b)
        idx == take_indices(
                   v.index_data,
                   [i \in 1..16 |->
                       IF IsAnchor(m, v.partition, i - 1)
                       THEN IndexWidth(m) - 1 ELSE IndexWidth(m)], <<>>)
    IN  [i \in 1..16 |->
            LET sub == SubsetOf(m, v.partition, i - 1)
                e0 == EndpointRgb(m, v, sub, 0)
                e1 == EndpointRgb(m, v, sub, 1)
            IN  [c \in 1..3 |-> interpolate(IndexWidth(m), e0[c], e1[c], idx[i])]]

\* C6: for every block of mode 0, 1, 2 or 3, each of the 16 decoded texels
\* has RGB equal to interp(e0, e1, idx), e0 and e1 the expanded endpoints of
\* the subset of the texel (PARTITIONS_3 in modes 0 and 2, PARTITIONS_2 in
\* modes 1 and 3) and idx its index read with the width of the mode (3 bits
\* in modes 0 and 1, 2 bits in modes 2 and 3), one bit fewer at the anchor
\* texel of each subset.
C6_PartitionedTexels ==
    (bpc = "decoded" /\ BlockMode \in 0..3) =>
        /\ tile.status = "ok"
        /\ \A i \in 1..16 :
               SubSeq(tile.pixels[i], 1, 3) = ExpectedRgb(BlockMode, blk)[i]

\* C9: decode_bc7_block maps every block whose low 8 bits are all zero, the
\* block 0 included, to a tile of sixteen (0,0,0,0) texels.
C9_InvalidModeIsTransparent ==
    (bpc = "decoded" /\ \A i \in 1..8 : blk[i] = 0) =>
        /\ tile.status = "ok"
        /\ tile.pixels = [i \in 1..16 |-> <<0, 0, 0, 0>>]

C9_Witness ==
    /\ bpc = "decoded"
    /\ \A i \in 1..8 : blk[i] = 0
    /\ PopCount(blk) > 1
    /\ tile.status = "ok"
    /\ tile.pixels[1] = <<0, 0, 0, 0>> /\ tile.pixels[16] = <<0, 0, 0, 0>>

\* the channel swap of rot: R, G, B exchange red, green, blue with alpha
RotSwap(rot, c) ==
    CASE rot = "No" -> c
      [] rot = "R" -> <<c[4], c[2], c[3], c[1]>>
      [] rot = "G" -> <<c[1], c[4], c[3], c[2]>>
      [] rot = "B" -> <<c[1], c[2], c[4], c[3]>>

\* expanded endpoint e (1 or 2) of the mode-5 or mode-6 value v, as RGBA
Endpoint56(m, v, e) ==
    IF m = 5
    THEN <<Expand(v.r[e], 7), Expand(v.g[e], 7), Expand(v.b[e], 7), v.a[e]>>
    ELSE <<or8(shl8(v.r[e], 1), v.p[e]), or8(shl8(v.g[e], 1), v.p[e]),
           or8(shl8(v.b[e], 1), v.p[e]), or8(shl8(v.a[e], 1), v.p[e])>>

\* the block at hand is of mode 5 or 6 and its two endpoints are equal after
\* expansion
EqualEndpoints ==
    /\ bpc = "decoded" /\ BlockMode \in {5, 6}
    /\ Endpoint56(BlockMode, BlockN_decode(BlockMode, blk), 1)
           = Endpoint56(BlockMode, BlockN_decode(BlockMode, blk), 2)

\* the two blocks the claim names decode as it says
C10_Examples ==
    /\ (bpc = "decoded" /\ blk = TransparentBlock) =>
           tile = Ok([i \in 1..16 |-> <<0, 0, 0, 0>>])
    /\ (bpc = "decoded" /\ BlockMode = 6
            /\ Endpoint56(6, BlockN_decode(6, blk), 1) = <<255, 255, 255, 255>>
            /\ Endpoint56(6, BlockN_decode(6, blk), 2) = <<255, 255, 255, 255>>)
           => tile = Ok([i \in 1..16 |-> <<255, 255, 255, 255>>])

\* C10 as stated: in modes 5 and 6, when the two endpoints are equal after
\* expansion, all 16 texels decode to that endpoint value whatever the
\* index bits are.
C10_EqualEndpointsGiveEndpoint ==
    /\ EqualEndpoints =>
           tile = Ok([i \in 1..16 |->
                         Endpoint56(BlockMode, BlockN_decode(BlockMode, blk), 1)])
    /\ C10_Examples

\* C10, amended: in modes 5 and 6, when the two endpoints are equal after
\* expansion, all 16 texels decode, whatever the index bits are, to that
\* endpoint value with the channel swap of the block's rot applied (no swap
\* for rot = No and in mode 6); the mode-5 block with rot = No and all-zero
\* endpoints 0x00000000_aaaaaaac_00000000_00000020 decodes to sixteen
\* (0,0,0,0), a mode-6 block with both endpoints all ones and both p-bits 1
\* to sixteen (255,255,255,255).
C10_EqualEndpointsGiveRotatedEndpoint ==
    /\ EqualEndpoints =>
           LET v == BlockN_decode(BlockMode, blk)
               e == Endpoint56(BlockMode, v, 1)
           IN  tile = Ok([i \in 1..16 |->
                             IF BlockMode = 5 THEN RotSwap(v.rot, e) ELSE e])
    /\ C10_Examples

C10_Witness ==
    /\ EqualEndpoints /\ BlockMode = 5
    /\ LET v == BlockN_decode(5, blk)
           e == Endpoint56(5, v, 1)
       IN  /\ v.rot = "R" /\ e[1] # e[4]
           /\ PopCount(v.colors) > 1 /\ PopCount(v.alpha) > 1
           /\ tile.status = "ok"
           /\ tile.pixels[2] = <<e[4], e[2], e[3], e[1]>>

\* the block b of mode 4 or 5 with its two rot bits, the two bits above the
\* unary prefix, cleared: the same block with rot = No
ClearRot(b) ==
    [i \in 1..128 |->
        IF i \in {trailing_zeros(b) + 2, trailing_zeros(b) + 3} THEN 0
        ELSE b[i]] \o <<>>

\* the index field the alpha indices of the Block4 value v are read from
AlphaIndexField4(v) == IF v.idx_mode THEN v.index_data0 ELSE v.index_data1

\* the mode-4 block at hand has rot = G, r = g = b = [0, 0] and alpha index
\* 0 at every texel
C11_Example ==
    /\ bpc = "decoded" /\ BlockMode = 4
    /\ LET v == Block4_decode(blk)
       IN  /\ v.rot = "G"
           /\ v.r = <<0, 0>> /\ v.g = <<0, 0>> /\ v.b = <<0, 0>>
           /\ PopCount(AlphaIndexField4(v)) = 0

\* in modes 4 and 5 every texel is the texel of the same block with rot = No
\* (colour and alpha as interpolated) with the channel named by rot
\* exchanged with alpha
C11_SwapLast ==
    (bpc = "decoded" /\ BlockMode \in {4, 5}) =>
        /\ tile.status = "ok"
        /\ LET v == BlockN_decode(BlockMode, blk)
               plain == decode_bc7_block(ClearRot(blk))
           IN  /\ plain.status = "ok"
               /\ \A i \in 1..16 :
                      tile.pixels[i] = RotSwap(v.rot, plain.pixels[i])

\* C11 as stated: in modes 4 and 5, rot = R, G or B exchanges the R, G or B
\* channel of each of the 16 texels with its A channel after interpolation
\* and rot = No changes nothing; for a mode-4 block with rot = G,
\* r = g = b = [0, 0] and alpha index 0 at every texel, every decoded texel
\* has G equal to 0 and A equal to the interpolated G-endpoint value.
C11_RotationExchangesChannel ==
    /\ C11_SwapLast
    /\ C11_Example =>
           \A i \in 1..16 : tile.pixels[i][2] = 0 /\ tile.pixels[i][4] = 0

\* C11, amended: the same, the example taken with a[0] = 0: every decoded
\* texel of a mode-4 block with rot = G, r = g = b = [0, 0], a[0] = 0 and
\* alpha index 0 at every texel has G equal to 0, the interpolated alpha,
\* and A equal to the interpolated G-endpoint value, 0.
C11_RotationExchangesChannelZeroAlpha ==
    /\ C11_SwapLast
    /\ (C11_Example /\ Block4_decode(blk).a[1] = 0) =>
           \A i \in 1..16 : tile.pixels[i][2] = 0 /\ tile.pixels[i][4] = 0
    /\ (C11_Example /\ ~Block4_decode(blk).idx_mode) =>
           \A i \in 1..16 : tile.pixels[i][2] = Block4_decode(blk).a[1]

C11_Witness ==
    /\ C11_Example
    /\ Block4_decode(blk).a = <<0, 63>>
    /\ PopCount(Block4_decode(blk).index_data0) > 1
    /\ tile.status = "ok"
    /\ tile.pixels[5] = <<0, 0, 0, 0>>

\* every texel given to encode_bc7_block has alpha 0
AllTransparent == pixels_in # <<>> /\ \A i \in 1..16 : pixels_in[i][4] = 0

\* C12: encode_bc7_block applied to a tile whose 16 texels all have alpha 0,
\* whatever their RGB values, returns the mode-5 block with rot = No, all
\* endpoints zero and all index bits zero (5 trailing zero bits, value
\* 0x20), and decode_bc7_block applied to that block returns sixteen
\* (0,0,0,0) texels.
C12_TransparentTileEncoding ==
    (AllTransparent /\ bpc \in {"encoded", "fields", "decoded"}) =>
        /\ blk = OneBit(5)
        /\ trailing_zeros(blk) = 5
        /\ Block5_decode(blk) = Block5_transparent
        /\ bpc = "decoded" => tile = Ok([i \in 1..16 |-> <<0, 0, 0, 0>>])

C12_Witness ==
    /\ AllTransparent /\ bpc = "decoded"
    /\ pixels_in[3][1] # 0 /\ pixels_in[3][2] # 0
    /\ blk = OneBit(5)
    /\ tile.status = "ok" /\ tile.pixels[16] = <<0, 0, 0, 0>>

----------------------------------------------------------------------------
(* Claims about the DDS functions *)

\* C13: for every width and height, the bytes written by
\* create_dds_header(w, h).write followed by any payload are accepted by
\* parse_dds, which returns the same width, height and mipmap_count,
\* resource dimension Texture2D and alpha mode Straight as written, and a
\* remainder equal to the payload byte for byte.
C13_HeaderRoundTrip ==
    /\ ~(dpc = "panic" /\ dheader # <<>>)
    /\ (dpc = "parsed" /\ dheader # <<>>) =>
           /\ dres.ok
           /\ dres.header.width = dwidth
           /\ dres.header.height = dheight
           /\ dres.header.mipmap_count = dheader.mipmap_count
           /\ dres.header.dx10_header.resource_dimension = "Texture2D"
           /\ dres.header.dx10_header.alpha_mode = "Straight"
           /\ dres.rest = dpayload

\* the errors of the validated fields, in the order of CheckedOffsets
FieldErrors ==
    <<"WrongDDSMagic", "WrongDDSHeaderSize", "WrongPixelFormatSize",
      "UnknownFourCC", "UnknownFormat", "UnknownResourceDimension",
      "UnknownAlphaMode">>

\* the word w is a valid value of validated field k
FieldValid(k, w) ==
    CASE k = 1 -> w = <<68, 68, 83, 32>>
      [] k = 2 -> w = <<124, 0, 0, 0>>
      [] k = 3 -> w = <<32, 0, 0, 0>>
      [] k = 4 -> w = <<68, 88, 49, 48>>
      [] k = 5 -> w = <<98, 0, 0, 0>>
      [] k = 6 -> w \in {<<d, 0, 0, 0>> : d \in {2, 3, 4}}
      [] k = 7 -> w \in {<<m, 0, 0, 0>> : m \in 0..4}

\* the validated fields that data holds completely and that are invalid
BadFields(data) ==
    {k \in 1..7 : /\ CheckedOffsets[k] + 4 <= Len(data)
                  /\ ~FieldValid(k, WordAt(data, CheckedOffsets[k]))}

FirstOf(s) == CHOOSE k \in s : \A j \in s : k <= j

\* the length of the header: magic, 124 bytes, the 20 bytes of the DX10 part
HeaderLength == 4 + DdsHeader_SIZE + 20

\* C14 as stated: parse_dds returns the error of the first invalid field in
\* the order magic, header size, pixel-format size, FourCC, DXGI format,
\* resource dimension, alpha mode, and no error when none is invalid; an
\* input that ends before the header is complete yields an Io error and
\* never a panic.
C14_FirstInvalidFieldOrIo ==
    dpc = "parsed" =>
        IF Len(ddata) < HeaderLength
        THEN ~dres.ok /\ dres.error = "Io"
        ELSE IF BadFields(ddata) = {} THEN dres.ok
        ELSE ~dres.ok /\ dres.error = FieldErrors[FirstOf(BadFields(ddata))]

\* C14, amended: parse_dds returns the error of the first invalid field, in
\* the same order, among the validated fields the input holds completely;
\* an input that ends before the header is complete and holds no invalid
\* field completely yields an Io error; a complete header with no invalid
\* field is accepted; there is never a panic.
C14_FirstInvalidFieldReadOrIo ==
    dpc = "parsed" =>
        IF BadFields(ddata) # {}
        THEN ~dres.ok /\ dres.error = FieldErrors[FirstOf(BadFields(ddata))]
        ELSE IF Len(ddata) < HeaderLength THEN ~dres.ok /\ dres.error = "Io"
        ELSE dres.ok

C14_Witness ==
    /\ dpc = "parsed"
    /\ Len(ddata) = 136
    /\ BadFields(ddata) = {6}
    /\ ~dres.ok /\ dres.error = "UnknownResourceDimension"

\* 2^k as a u32, k in 0..31
PowerOfTwo(k) ==
    [i \in 1..4 |-> IF i = (k \div 8) + 1 THEN Pow2(k % 8) ELSE 0] \o <<>>

\* floor(log2 v) and ceil(log2 v) of the u32 v >= 1
FloorLog2(v) ==
    CHOOSE k \in 0..31 :
        le_le(PowerOfTwo(k), v) /\ (k = 31 \/ ~le_le(PowerOfTwo(k + 1), v))
CeilLog2(v) ==
    IF \E k \in 0..31 : le_le(v, PowerOfTwo(k))
    THEN CHOOSE k \in 0..31 :
             le_le(v, PowerOfTwo(k)) /\ (k = 0 \/ ~le_le(v, PowerOfTwo(k - 1)))
    ELSE 32


\* calculate_mipmap_count was applied to a width and a height >= 1
Counted == dpc = "counted" /\ dwidth # U32(0) /\ dheight # U32(0)

\* (1024, 512) gives 11 and (1, 1) gives 1
C15_Examples ==
    /\ (dpc = "counted" /\ dwidth = U32(1024) /\ dheight = U32(512)) =>
           dres = U32(11)
    /\ (dpc = "counted" /\ dwidth = U32(1) /\ dheight = U32(1)) =>
           dres = U32(1)

\* C15 as stated: calculate_mipmap_count(w, h) =
\* max(ceil(log2 w), ceil(log2 h)) + 1 for all w, h >= 1; (1024, 512) gives
\* 11 and (1, 1) gives 1.
C15_MipmapCountCeilLog2 ==
    /\ Counted => dres = U32(Max(CeilLog2(dwidth), CeilLog2(dheight)) + 1)
    /\ C15_Examples

\* C15, amended: calculate_mipmap_count(w, h) =
\* max(floor(log2 w), floor(log2 h)) + 1 for all w, h >= 1; (1024, 512)
\* gives 11 and (1, 1) gives 1.
C15_MipmapCountFloorLog2 ==
    /\ Counted => dres = U32(Max(FloorLog2(dwidth), FloorLog2(dheight)) + 1)
    /\ C15_Examples

C15_Witness ==
    /\ Counted /\ dwidth = U32(5) /\ dheight = U32(3) /\ dres = U32(3)

\* r is the smallest multiple of 4 that is >= x, which is ((x + 3) / 4) * 4
\* in exact arithmetic
SmallestMultipleOf4(r, x) ==
    /\ r[1] % 4 = 0
    /\ le_le(x, r)
    /\ le_le(r \o <<0>>, add_le(x, U32(3), 0))

\* C16 as stated: for every 32-bit unsigned x, align_up::<4>(x) equals
\* ((x + 3) / 4) * 4, is the smallest multiple of 4 that is >= x, and is
\* idempotent; 1 gives 4, 4 gives 4.
C16_AlignUp ==
    /\ ~(dpc = "panic" /\ dheader = <<>>)
    /\ dpc = "aligned" =>
           /\ SmallestMultipleOf4(dres.v, dwidth)
           /\ align_up(4, dres.v) = Value(dres.v)
           /\ dwidth \in {U32(1), U32(4)} => dres.v = U32(4)

\* C16, amended: the same for every x <= 2^32 - 4, the values for which
\* ((x + 3) / 4) * 4 is a 32-bit unsigned value.
C16_AlignUpInRange ==
    (dpc \in {"aligned", "panic"} /\ dheader = <<>>
        /\ le_le(dwidth, <<252, 255, 255, 255>>)) =>
        /\ dpc = "aligned"
        /\ SmallestMultipleOf4(dres.v, dwidth)
        /\ align_up(4, dres.v) = Value(dres.v)
        /\ dwidth \in {U32(1), U32(4)} => dres.v = U32(4)

C16_Witness ==
    /\ dpc = "aligned" /\ dwidth = <<251, 255, 255, 255>>
    /\ dres = Value(<<252, 255, 255, 255>>)

----------------------------------------------------------------------------
(* Claims about the bit stream *)

\* the values of the fields of prog in the order take_bits reads them: the
\* field injected last first, the elements of an array in the order of the
\* array
RECURSIVE Injected(_)
Injected(prog) ==
    IF prog = <<>> THEN <<>>
    ELSE LET f == prog[Len(prog)] IN
         (IF f.array
          THEN [i \in 1..Len(f.value) |-> BitsOf(f.value[i], f.BITS)] \o <<>>
          ELSE <<f.value>>)
         \o Injected(SubSeq(prog, 1, Len(prog) - 1))

\* C17: fields injected into a zero state with put_bits and
\* put_bits_array_rev, every value within its width and the widths summing to
\* at most the width of the state, are injected and extracted without a
\* panic, and take_bits, called with the same widths for the field injected
\* last first, returns the injected values, the elements of an array in the
\* order of the source array.
C17_InjectExtract ==
    /\ spc # "panic"
    /\ spc = "done" => staken = Injected(sdone)

----------------------------------------------------------------------------
(* Claims about the image encoder *)

\* the bytes of a level: 16 for every tile, the little-endian block of the
\* tile with origin (4x, 4y) from byte 16 * (y * across + x) on
LevelLayout(image, bytes) ==
    LET across == ((image.width + 3) \div 4)
        down == ((image.height + 3) \div 4)
    IN  /\ Len(bytes) = 16 * across * down
        /\ \A x \in 0..(across - 1), y \in 0..(down - 1) :
            SubSeq(bytes, 16 * (y * across + x) + 1,
                          16 * (y * across + x) + 16)
                = to_le_bytes(encode_bc7_block(
                      [i \in 1..16 |->
                          IF 4 * x + ((i - 1) % 4) < image.width
                             /\ 4 * y + (i - 1) \div 4 < image.height
                          THEN image.pixels[(4 * y + (i - 1) \div 4)
                                                * image.width
                                            + 4 * x + ((i - 1) % 4) + 1]
                          ELSE <<0, 0, 0, 0>>]))

\* every level encoded so far has the layout of its image, and the bytes
\* returned are the levels one after the other
LevelsInOrder ==
    /\ \A k \in 1..Len(tlevels) :
           LevelLayout(tlevels[k].image, tlevels[k].bytes)
    /\ tres = Concat([k \in 1..Len(tlevels) |-> tlevels[k].bytes] \o <<>>)

\* the size of the k-th level (k from 0) of an image
Halved(n, k) == Max(n \div Pow2(k), 1)

\* the number of mipmaps behind the base level: halve until both sides are
\* 1, none for a 1 x 1 image
Mipmaps(image) ==
    CHOOSE k \in 0..(MaxSide + 3) :
        /\ Halved(image.width, k) = 1 /\ Halved(image.height, k) = 1
        /\ \A j \in 0..(k - 1) :
               Halved(image.width, j) > 1 \/ Halved(image.height, j) > 1

\* the levels encode_bc7 has returned when it is done: the image, then its
\* mipmaps, every one the image resized
Bc7Levels ==
    tpc = "done" /\ tmode = "bc7" =>
        /\ Len(tlevels) = Mipmaps(timage) + 1
        /\ tlevels[1].image = timage
        /\ \A k \in 1..Mipmaps(timage) :
              tlevels[k + 1].image
                  = resize(timage, Halved(timage.width, k),
                                   Halved(timage.height, k))

Smaller(a, b) ==
    /\ a.width <= b.width /\ a.height <= b.height
    /\ a.width < b.width \/ a.height < b.height

\* C18: every level has 16 * (align_up_4(w) / 4) * (align_up_4(h) / 4) bytes,
\* the block of the tile with origin (4x, 4y) from byte
\* 16 * (y * (align_up_4(w) / 4) + x) on, in whatever order the tile tasks
\* finished; encode_bc7 returns the base level followed by the mipmaps, every
\* level smaller than the one before it, and the bytes are a function of the
\* image.
C18_LevelsDecreasing ==
    /\ LevelsInOrder
    /\ Bc7Levels
    /\ \A k \in 2..Len(tlevels) : Smaller(tlevels[k].image, tlevels[k - 1].image)

----------------------------------------------------------------------------
(* Claims about replace_one_entry *)

\* the extension of the file is dds, and png
IsDds == extension(rfile.path) = <<OsStrDds>>
IsPng == extension(rfile.path) = <<OsStrPng>>

\* the file parses as a DDS file: parse_dds returns a header
Parses == parse_dds(rfile.data).ok

\* the data is all the bytes of the file and nothing else of the entry changed
WholeFileKept ==
    /\ rpc = "done"
    /\ rentry.data = Raw(rfile.data)
    /\ rentry.file_type = rbefore.file_type
    /\ rentry.name = rbefore.name

\* the data is the bytes behind the 148 bytes of the header, and the width and
\* height of an Image are the words at byte offsets 16 and 12 of the file
HeaderStripped ==
    /\ rpc = "done"
    /\ rentry.data = Raw(SubSeq(rfile.data, HeaderLength + 1, Len(rfile.data)))
    /\ rentry.name = rbefore.name
    /\ rentry.file_type.tag = "Image" =>
        /\ rentry.file_type.width = read_u32(rfile.data, 16)
        /\ rentry.file_type.height = read_u32(rfile.data, 12)
        /\ rentry.file_type.unks = rbefore.file_type.unks

\* C19 as stated: a dds file that does not parse, and a file that is neither
\* png nor dds, become the Raw data of the entry whole and leave its width,
\* height and unks alone, without an abort; a dds file that parses becomes
\* the Raw data without its header and gives the Image its width and height.
C19_ReplaceOneEntry ==
    rpc # "call" =>
        /\ IsDds /\ ~Parses => WholeFileKept
        /\ IsDds /\ Parses => HeaderStripped
        /\ ~IsDds /\ ~IsPng => WholeFileKept

\* C19: a dds file that does not parse, and a file that is neither png nor
\* dds, become the Raw data of the entry whole and leave its width, height
\* and unks alone, without an abort; a dds file that parses and replaces an
\* Image entry becomes the Raw data without its header and gives the Image
\* its width and height; a dds file that parses and replaces an entry that is
\* no Image makes replace_one_entry panic with the entry as it was.
C19_ReplaceOneImageEntry ==
    rpc # "call" =>
        /\ IsDds /\ ~Parses => WholeFileKept
        /\ IsDds /\ Parses
               /\ rbefore.file_type.tag = "Image" => HeaderStripped
        /\ IsDds /\ Parses
               /\ rbefore.file_type.tag # "Image" =>
                   rpc = "panic" /\ rentry = rbefore
        /\ ~IsDds /\ ~IsPng => WholeFileKept

\* a 300 x 2 dds file with a payload has replaced a 16 x 16 Image
C19_Witness ==
    /\ rpc = "done"
    /\ IsDds
    /\ rbefore.file_type.tag = "Image" /\ rbefore.file_type.width = 16
    /\ rentry.file_type.width = 300 /\ rentry.file_type.height = 2
    /\ rentry.data = Raw(<<1, 2, 3>>)

----------------------------------------------------------------------------
(* Claims about the commands that rewrite the archive *)

\* the output file has been created
OutputCreated == cpc \in {"created", "written"}

\* the files are as they were when the command started
DiskUntouched == cdisk = [in |-> cfile, out |-> <<>>]

\* the input has been read whole and closed, and the work is over
InputConsumed ==
    /\ chandle = "closed"
    /\ read_toc(cfile).ok /\ ctoc = read_toc(cfile).entries
    /\ Len(carchive) = Len(ctoc)
    /\ cdone = Len(cops) /\ ctasks = {}

\* the command is given a name that no entry of the archive has
NameMissing ==
    /\ cpc \notin {"start", "open", "toc", "panic"}
    /\ \E k \in 1..Len(cops) :
           \A i \in 1..Len(carchive) : carchive[i].name # cops[k].entry_name

\* C20 as stated: the output file is created, and a file changes, only after
\* the input archive has been opened, read whole into memory and closed and
\* after every lookup and replacement has finished; so when the output path
\* is the input path, a failed lookup or a failed replacement leaves the
\* bytes of the input file as they were, in each of the three commands.
C20_InputIntactOnFailure ==
    /\ OutputCreated \/ ~DiskUntouched => InputConsumed
    /\ coutput = "in" /\ (cpc = "panic" \/ NameMissing) =>
           cdisk["in"] = cfile

\* C20: the output file is created, and a file changes, only after the input
\* archive has been opened, read whole into memory and closed and after every
\* lookup and replacement has finished; so a command that ends in a panic
\* leaves every file as it was, and in replace-entry and replace-entries a
\* name that no entry has ends the command so.  test-set-metadata reports
\* such a name, goes on with the next instruction, and creates and writes the
\* output all the same.
C20_InputIntactOnAbort ==
    /\ OutputCreated \/ ~DiskUntouched => InputConsumed
    /\ cpc = "panic" => DiskUntouched
    /\ ccmd # "test-set-metadata" /\ NameMissing =>
           DiskUntouched /\ ~OutputCreated

\* replace-entries has rewritten the input archive in place after two
\* replacements
C20_Witness ==
    /\ cpc = "written" /\ ccmd = "replace-entries" /\ coutput = "in"
    /\ Len(cops) = 2 /\ cdone = 2
    /\ cdisk["in"] # cfile
    /\ \E i \in 1..Len(carchive) : carchive[i].data = Raw(<<9, 8, 7>>)

----------------------------------------------------------------------------
(* Further claims about the block codec *)

\* C21: decode_bc7_block returns a tile for every block: in no mode and for
\* no partition does an index into the endpoint arrays, the colour tables of
\* the subsets, the partition, anchor or weight tables leave its array, and
\* no assertion or unwrap fails.
C21_DecodeReturnsTile ==
    bpc = "decoded" => tile.status = "ok" /\ Len(tile.pixels) = 16

\* the number of bits of the index field of mode m
IndexFieldLength(m) ==
    CASE m = 0 -> 45 [] m = 1 -> 46 [] m = 2 -> 29 [] m = 3 -> 30 [] m = 7 -> 30

RECURSIVE SumSeq(_)
SumSeq(q) == IF q = <<>> THEN 0 ELSE Head(q) + SumSeq(Tail(q))

\* C22: in the modes with two subsets (1, 3, 7) the loop over the texels reads
\* one bit fewer than the index width of the mode at texel 0 and at texel
\* ANCHOR_INDEX_2[partition] and the full width at the other texels; in the
\* modes with three subsets (0, 2) it reads one bit fewer at texel 0,
\* ANCHOR_INDEX_3_2[partition] and ANCHOR_INDEX_3_3[partition]; the bits read
\* for the 16 texels are as many as the index field of the mode has.
C22_AnchorsReadShort ==
    (bpc \in {"fields", "decoded"} /\ BlockMode \in {0, 1, 2, 3, 7}) =>
        LET partition == BlockN_decode(BlockMode, blk).partition
            widths == index_widths(BlockMode, partition)
        IN
        /\ \A i \in 0..15 :
               widths[i + 1] = IF IsAnchor(BlockMode, partition, i)
                               THEN IndexWidth(BlockMode) - 1
                               ELSE IndexWidth(BlockMode)
        /\ SumSeq(widths) = IndexFieldLength(BlockMode)

\* the number of bits an endpoint channel has in mode m before expansion, the
\* p-bit counted: the colour channels, and the alpha channel of the modes that
\* store one
ColourBits(m) ==
    CASE m = 0 -> 5 [] m = 1 -> 7 [] m = 2 -> 5 [] m = 3 -> 8
      [] m = 4 -> 5 [] m = 5 -> 7 [] m = 6 -> 8 [] m = 7 -> 6
AlphaBits(m) == CASE m = 4 -> 6 [] m = 5 -> 8 [] m = 6 -> 8 [] m = 7 -> 6

\* the k-bit value v expanded to a byte: s = v << (8 - k), s | (s >> k), and
\* v itself when k = 8
Expanded(v, k) == IF k = 8 THEN v ELSE Expand(v, k)

\* endpoint n (from 1) of the mode-m value v, every channel with its p-bit
\* appended below and expanded to 8 bits
ExpandedEndpoint(m, v, n) ==
    LET pbit == CASE m \in {0, 3, 6, 7} -> v.p[n]
                  [] m = 1 -> v.p[((n - 1) \div 2) + 1]
                  [] OTHER -> 0
        stored(x) == IF m \in {0, 1, 3, 6, 7} THEN 2 * x + pbit ELSE x
        colour(x) == Expanded(stored(x), ColourBits(m))
        rgb == <<colour(v.r[n]), colour(v.g[n]), colour(v.b[n])>>
    IN  IF m \in 4..7
        THEN rgb \o <<Expanded(stored(v.a[n]), AlphaBits(m))>>
        ELSE rgb

\* C23: every endpoint channel handed to interpolate, colour and alpha alike,
\* is the stored value with the p-bit of the mode appended below it, shifted
\* to the top of the byte and its high bits replicated into the low bits
\* (the value itself when it has 8 bits), in the modes 0 to 7 and in mode 4
\* for both values of idx_mode.
C23_EndpointsExpanded ==
    (bpc \in {"fields", "decoded"} /\ BlockMode \in 0..7) =>
        LET v == BlockN_decode(BlockMode, blk) IN
        endpoints(BlockMode, v)
            = [n \in 1..Len(v.r) |-> ExpandedEndpoint(BlockMode, v, n)]

----------------------------------------------------------------------------
(* Claims about interpolate *)

\* the weights of the index width BITS, in 64ths
InterpWeights(BITS) ==
    CASE BITS = 2 -> <<0, 21, 43, 64>>
      [] BITS = 3 -> <<0, 9, 18, 27, 37, 46, 55, 64>>
      [] BITS = 4 -> <<0, 4, 9, 13, 17, 21, 26, 30, 34, 38, 43, 47, 51, 55, 60, 64>>

\* C24: interpolate<BITS>(a, b, i) is ((64 - w_i) * a + w_i * b + 32) >> 6
\* with the weights of BITS, for BITS 2, 3 and 4, the endpoints a and b in
\* 0..255 and i below 2^BITS; no product and no sum leaves the range of u16,
\* so the call returns in every build; index 0 returns a, the largest index
\* returns b, equal endpoints return that endpoint, and the result lies
\* between the smaller and the larger of a and b.
C24_Interpolate ==
    ipc # "call" =>
        LET w == InterpWeights(iargs.BITS)[iargs.index + 1]
            a == iargs.a
            b == iargs.b
            sum == (64 - w) * a + w * b + 32
        IN  /\ ipc = "done"
            /\ (64 - w) * a <= 65535 /\ w * b <= 65535 /\ sum <= 65535
            /\ iret = sum \div 64
            /\ iargs.index = 0 => iret = a
            /\ iargs.index = Pow2(iargs.BITS) - 1 => iret = b
            /\ a = b => iret = a
            /\ Min(a, b) <= iret /\ iret <= Max(a, b)

\* a call with the largest endpoints and a weight in the middle has returned
C24_Witness ==
    /\ ipc = "done"
    /\ iargs = [BITS |-> 4, a |-> 255, b |-> 254, index |-> 7]
    /\ iret = 255

----------------------------------------------------------------------------
(* Further claims about the image encoder *)

\* the mipmap count of the header test_encode_bc7 writes in front of the
\* bytes encode_bc7 returned for the image at hand
HeaderMipmapCount ==
    read_u32(create_dds_header(U32(timage.width),
                               U32(timage.height)).mipmap_count, 0)

\* C25: for every image of width and height at least 1 the loop of encode_bc7
\* over the mipmaps ends, the last level encoded is 1 x 1, and the number of
\* levels written, the base level included, is
\* calculate_mipmap_count(width, height), the mipmap count of the header
\* test-encode-bc7 writes in front of them.
C25_LevelsMatchHeader ==
    tmode = "bc7" =>
        /\ Len(tlevels) <= HeaderMipmapCount
        /\ tpc = "done" =>
            /\ tlevels[Len(tlevels)].image.width = 1
            /\ tlevels[Len(tlevels)].image.height = 1
            /\ Len(tlevels) = HeaderMipmapCount

----------------------------------------------------------------------------
(* Claims about decode_bc7 *)

\* the number of tiles in a row of an image of width w
TilesAcross(w) == (4 * ((w + 3) \div 4)) \div 4

\* the blocks of the data that are used: the whole 16-byte chunks, at most as
\* many as the image has tiles
UsedBlocks ==
    Min(Len(mdata) \div 16, TilesAcross(msize[1]) * TilesAcross(msize[2]))

\* the image is msize[1] x msize[2] and every pixel (px, py) of it is texel
\* [py mod 4][px mod 4] of the decoded block (py / 4) * across + px / 4, or
\* (0, 0, 0, 0) when the data has no such block
ImageLayout ==
    /\ mimage.image.width = msize[1] /\ mimage.image.height = msize[2]
    /\ Len(mimage.image.pixels) = msize[1] * msize[2]
    /\ \A px \in 0..(msize[1] - 1), py \in 0..(msize[2] - 1) :
           LET n == (py \div 4) * TilesAcross(msize[1]) + (px \div 4)
               block == from_le_bytes(SubSeq(mdata, 16 * n + 1, 16 * n + 16))
           IN  mimage.image.pixels[py * msize[1] + px + 1]
                   = IF n < UsedBlocks
                     THEN decode_bc7_block(block).pixels[4 * (py % 4) + (px % 4) + 1]
                     ELSE <<0, 0, 0, 0>>

\* C26: decode_bc7(data, w, h) returns an image of w x h pixels in which
\* pixel (px, py) is texel [py mod 4][px mod 4] of the decoded block number
\* (py / 4) * (align_up_4(w) / 4) + px / 4 of data; the texels of edge tiles
\* outside w x h are discarded, only the first
\* (align_up_4(w) / 4) * (align_up_4(h) / 4) blocks are used, and the pixels
\* whose block is missing from data stay (0, 0, 0, 0).
C26_DecodeBc7Layout ==
    mpc \in {"done", "panic"} => mpc = "done" /\ ImageLayout

\* every pixel of the image given to encode_bc7 has alpha 255
OpaqueImage == \A i \in 1..Len(timage.pixels) : timage.pixels[i][4] = 255

\* C27: for an image whose pixels all have alpha 255, every pixel of the base
\* level that decode_bc7 gets from the bytes encode_bc7 returned has alpha
\* 255, the pixels of the tiles at the right and bottom edge included when
\* the width or the height is no multiple of 4.
C27_OpaqueRoundTrip ==
    (tmode = "bc7" /\ mpc \in {"done", "panic"} /\ OpaqueImage) =>
        /\ mpc = "done"
        /\ mimage.image.width = timage.width
        /\ mimage.image.height = timage.height
        /\ \A i \in 1..Len(mimage.image.pixels) : mimage.image.pixels[i][4] = 255

----------------------------------------------------------------------------
(* Claims about replace-entries *)

\* the input archive loads
LoadOk ==
    /\ read_toc(cfile).ok
    /\ from_file_and_toc(cfile, [entries |-> read_toc(cfile).entries]).status
           = "ok"

\* the entries as they were loaded
Loaded ==
    from_file_and_toc(cfile, [entries |-> read_toc(cfile).entries]).entries

\* the entry file k of the folder is for: the first entry of its name, 0 when
\* no entry has it
TargetOf(k) == find(Loaded, cops[k].entry_name)

\* the archive with, for every file of the folder, the entry of its name
\* replaced
Replaced_all ==
    [i \in 1..Len(Loaded) |->
        IF \E k \in 1..Len(cops) : TargetOf(k) = i
        THEN LET k == CHOOSE k \in 1..Len(cops) : TargetOf(k) = i
             IN  replace_one_entry(Loaded[i], cops[k].file.path,
                                   cops[k].file.data, NoCompressor).entry
        ELSE Loaded[i]]

\* C28: in replace-entries every entry is handed to at most one task, an
\* entry whose name no file has is not modified, the archive written is the
\* same in whatever order the tasks ran, and a file whose name no entry that
\* is left has ends the command before a task runs and before the output file
\* is created.
C28_OneTaskPerEntry ==
    (ccmd = "replace-entries" /\ LoadOk /\ cpc \notin {"start", "open", "toc"}) =>
        /\ \A t1, t2 \in ctasks : t1.entry = t2.entry => t1 = t2
        /\ \A t \in ctasks :
               /\ t.entry \in 1..Len(carchive)
               /\ carchive[t.entry].name = cops[t.op].entry_name
        /\ \A i \in 1..Len(Loaded) :
               (\A k \in 1..Len(cops) : TargetOf(k) # i) =>
                   carchive[i] = Loaded[i]
        /\ OutputCreated => carchive = Replaced_all
        /\ cpc = "written" => cdisk[coutput] = write_to_file(Replaced_all)
        /\ (\E k \in 1..Len(cops) : TargetOf(k) = 0) =>
               carchive = Loaded /\ DiskUntouched /\ ~OutputCreated

\* replace-entries has written an archive of three entries, two of them
\* replaced and the first as it was loaded
C28_Witness ==
    /\ ccmd = "replace-entries" /\ cpc = "written"
    /\ Len(cops) = 2 /\ Len(carchive) = 3
    /\ carchive[1] = Loaded[1]
    /\ carchive[2] # Loaded[2] /\ carchive[3] # Loaded[3]
    /\ cdisk[coutput] = write_to_file(carchive)

----------------------------------------------------------------------------
(* Further claims about the archive *)

\* C29: Archive::from_file_and_toc returns one entry for every entry of the
\* TOC, in the order of the TOC and with its name, whose data is Compressed
\* with the size bytes found at the offset of the entry and its decompressed
\* size, whatever the file type of the entry is: Image, Sound or Unknown.
C29_OneEntryPerTocEntry ==
    (pc \in {"loaded", "panic"} /\ nmut = 0 /\ read_toc(file).ok) =>
        /\ pc = "loaded"
        /\ Len(archive) = Len(toc)
        /\ \A i \in 1..Len(toc) :
            /\ archive[i].name = toc[i].name
            /\ archive[i].data
                   = Compressed(Slice(file, toc[i].offset, toc[i].size),
                                toc[i].size_decompressed)

----------------------------------------------------------------------------
(* Further claims about the bit fields *)

\* the number of bits that the take_bits calls of taken have read
BitsTaken(taken) == SumSeq([i \in 1..Len(taken) |-> Len(taken[i])] \o <<>>)

\* C30: take_bits::<T, R, N>, for every N from 1 up to and including the
\* width of T, returns without a panic the N low bits of the state and shifts
\* the state right by N; with N = 0 or N above the width of T it panics; and
\* once as many bits as the state holds have been taken the state is zero, so
\* that every further read returns 0.
C30_TakeBitsContract ==
    [][(spc = "take" /\ swidths # <<>>) =>
           IF Head(swidths) \in 1..Len(sdest)
           THEN /\ spc' # "panic"
                /\ staken' = Append(staken, LowBits(sdest, Head(swidths)))
                /\ sdest' = Shr(sdest, Head(swidths))
                /\ BitsTaken(staken') >= Len(sdest') =>
                       sdest' = Zeros(Len(sdest'))
           ELSE spc' = "panic"]_vars

============================================================================
